---------------------------- MODULE Spec2Model ----------------------------
(***************************************************************************)
(* A model of src/solvers.py: windowed cooccurrence counting (doc2cooc,    *)
(* cooc_count), the shared array manager, the partitioned symmetrization   *)
(* of the cooccurrence file (symcooc), and the GloVe SGD driver and epoch. *)
(*                                                                         *)
(* Each part of the program is a specification of its own over its own     *)
(* variables (SpecDoc, SpecCooc, SpecSam, SpecSym, SpecSgd, SpecEpoch);    *)
(* the variables of the other parts stay at their idle values.             *)
(*                                                                         *)
(* Python sequences are 0-based; the model keeps the code's 0-based        *)
(* positions and reads TLA+ sequences through At and PySlice.              *)
(***************************************************************************)
EXTENDS Integers, Sequences, FiniteSets, TLC

VARIABLES
    \* doc2cooc
    indices,        \* the document: word indices, V the out-of-vocabulary index
    window_size,    \* the window size W
    docOut,         \* the triples doc2cooc returned (zip of row, col, val)
    docPc,          \* "ready" | "done"
    \* cooc_count
    size,           \* the group size
    chunk,          \* CHUNK: the lines read per iteration of the chunk loop
    corpus,         \* the corpus file: one sequence of word indices per line
    coocWindow,     \* window_size of cooc_count
    pc,             \* per rank: where the worker is in cooc_count
    pos,            \* per rank: the lines its file handle has consumed
    v,              \* per rank: the local v
    counts,         \* per rank: the local Counter, (row, col) -> summed weight
    iter,           \* per rank: the chunk iterations it has started
    coocfile,       \* <<the tally rank 0 wrote>>, NotWritten before
    \* SharedArrayManager
    samSize,        \* the group size
    prog,           \* the manager calls every worker makes, in order
    ip,             \* per rank: the calls of prog it has completed
    samPc,          \* per rank: where it is inside the current call
    instNo,         \* per rank: the instances it has constructed
    shared,         \* per rank (process): the class attribute _shared
    exitIdx,        \* per rank: the position of __exit__'s loop in _shared
    clock,          \* time.time() of rank 0
    filename,       \* rank 0: the name of the array create is sharing
    shm,            \* the names of the shared arrays that exist on the node
    initialised,    \* the names whose array has been filled from the argument
    bcastQ,         \* per rank: the names broadcast to it and not yet received
    handles,        \* per rank: the names it has created or attached, in order
    returned,       \* per rank: the create calls that have returned
    creator,        \* per name: the instance whose create made it
    deleted,        \* the sa.delete calls made: [name, inst, rank], in order
    \* symcooc
    symSize,        \* the group size
    records,        \* the cooccurrence file: its records (row, col, weight)
    symPc,          \* per rank: "ready" | "done"
    symRange,       \* per rank: offset and ncooc, the records it read
    symOut,         \* per rank: the triples (row, col, weight) symcooc returned
    \* GloVe.sgd in a group of one
    sgdComm,        \* self._comm: NoComm (None) or a communicator of size 1
    epochs,         \* the epochs asked for
    verbose,        \* the verbose flag
    cumulative,     \* the cumulative flag
    sgdPc,          \* where sgd is
    ep,             \* the epochs run to completion
    commCalls,      \* the method calls sgd has made on self._comm
    \* GloVe.epoch
    wv, cv,         \* word and context vectors: word -> vector
    wb, cb,         \* word and context biases: word -> number
    cooc,           \* the records (row, col, weight, logcooc) of the pass
    etax2,          \* 2*eta
    done,           \* the records of the pass processed
    last            \* <<the arrays before the last record was processed and its coef>>

VARIABLES
    \* RegularizedGloVe: construction and first use
    regV,           \* the rows of the model's parameter arrays (V, or init's rows)
    regVdGiven,     \* V and d were both passed (neither is None)
    regInitGiven,   \* init was passed
    srcRows,        \* src.shape[0]: the rows of the reference embedding
    wccLen,         \* the length of the word cooccurrence counts array
    regPc,          \* where the instance is
    regEpochs,      \* the epochs run on the instance
    regLosses       \* the losses computed on the instance

VARIABLES
    \* the record format: struct.pack(FMT, ...) and splitcooc
    fmtRecords,     \* the records to write: (row, col, weight), 32-bit words
    fmtFile,        \* the file: a sequence of bytes
    fmtPc,          \* "write" | "open" | "read" | "done" | an exception's name
    fmtNcooc,       \* ncooc of splitcooc
    fmtRow,         \* the deque row of splitcooc
    fmtCol,         \* the deque col of splitcooc
    fmtVal          \* the weights splitcooc has yielded

VARIABLES
    \* loss() of a regularized model in a group
    rlSize,         \* the group size
    rlLocal,        \* per rank: np.inner(self.weights*errors, errors)
    rlNcooc,        \* per rank: self.ncooc
    rlPenalty,      \* what rloss() gives on the shared parameters
    rlPc,           \* per rank: where it is in loss()
    rlNcoocAll,     \* per rank: ncooc after the first allreduce
    rlOloss,        \* per rank: what oloss() returned
    rlQ,            \* per rank: the broadcast values not yet received
    rlCalls,        \* per rank: the collectives it has called, in order
    rlEvals,        \* per rank: the evaluations of rloss()
    rlResult        \* per rank: <<what loss() returned>>

VARIABLES
    \* GloVe._shuffle_cooc_data in the epoch loop of sgd
    shRow, shCol,           \* self.row, self.col
    shWeights, shLogcooc,   \* self.weights, self.logcooc
    shOrig,         \* the tuples (row, col, weight, logcooc) at construction
    shRandom,       \* the state of the generator of module random
    shNp,           \* the state of the generator of np.random
    shEpochs,       \* the epochs asked for
    shEp            \* the epochs run

VARIABLES
    \* vocab_count
    vcSize,         \* the group size
    vcCorpus,       \* the corpus file: one sequence of words per line
    vcMin,          \* min_count
    vcPc,           \* per rank: where the worker is in vocab_count
    vcCounts,       \* per rank: <<counts>>, a Counter as its items in order; <<>> is None
    vcLines,        \* per rank: the indices of the lines it counted
    vcFile,         \* <<the (word, count) lines written>>, NotWritten before
    vcWrites        \* per rank: the times it wrote the vocabulary file

VARIABLES
    \* GloVe.sgd in a group that shares the parameter arrays
    mgSize,         \* the group size
    mgEpochs,       \* the epochs asked for
    mgVerbose,      \* the verbose flag
    mgCumulative,   \* the cumulative flag
    mgNcooc,        \* per rank: self.ncooc, the records of its shard
    mgPc,           \* per rank: where it is in sgd
    mgEp,           \* per rank: the epochs it has completed
    mgStarted,      \* per rank: it has passed line 334
    mgLeft,         \* per rank: the records its epoch pass has still to process
    mgParams,       \* the writes made to the shared parameter arrays
    mgSeen          \* per rank: the ranks that had not finished the pass of
                    \* the epoch when it last read the parameters in loss()

VARIABLES
    \* induce_embeddings: the target matrix
    srcvocab,       \* the source vocabulary, a sequence of words
    tgtvocab,       \* the target vocabulary, a sequence of words
    indRow,         \* row of the target cooccurrences
    indCol,         \* col of the target cooccurrences, changed in place
    indData,        \* data of the target cooccurrences, changed in place
    indCol0,        \* col as symcooc returned it
    indDone,        \* the records the loop of lines 548-552 has passed
    indPc,          \* "remap" | "built" | "ValueError"
    indX            \* <<the matrix X>>: (row, col) -> value, its stored entries

VARIABLES
    \* induce_embeddings in a group: the ranges and the shared arrays
    ptSize,         \* the group size
    ptVsrc, ptVtgt, ptD,    \* Vsrc, Vtgt and d
    ptLow,          \* the (k, n) whose product k/size*n the floating point
                    \* arithmetic rounds below its whole value; <<0, 0>>: none
    ptPc,           \* per rank: where it is in induce_embeddings
    ptU,            \* per row of U (source): the ranks that wrote it
    ptM,            \* per column of M: the ranks that wrote it
    ptUt,           \* per row of U (target): the ranks that wrote it
    ptT,            \* per row of tgtvecs: the ranks that wrote it
    ptMSeen,        \* per rank: <<ptM as it was when the rank read M>>
    ptRet,          \* per rank: "array", "None", or "" before the return
    ptRetRows       \* <<ptT as it was when rank 0 returned tgtvecs>>

VARIABLES
    \* main
    mode,           \* args.mode, a sequence of characters
    mainPc,         \* where main is
    stages          \* the pipeline stages main has run, in order

docVars == <<indices, window_size, docOut, docPc>>
coocVars == <<size, chunk, corpus, coocWindow, pc, pos, v, counts, iter, coocfile>>

samVars == <<samSize, prog, ip, samPc, instNo, shared, exitIdx, clock, filename,
             shm, initialised, bcastQ, handles, returned, creator, deleted>>

symVars == <<symSize, records, symPc, symRange, symOut>>
sgdVars == <<sgdComm, epochs, verbose, cumulative, sgdPc, ep, commCalls>>
epochVars == <<wv, cv, wb, cb, cooc, etax2, done, last>>

regVars == <<regV, regVdGiven, regInitGiven, srcRows, wccLen, regPc, regEpochs,
             regLosses>>

fmtVars == <<fmtRecords, fmtFile, fmtPc, fmtNcooc, fmtRow, fmtCol, fmtVal>>

rlossVars == <<rlSize, rlLocal, rlNcooc, rlPenalty, rlPc, rlNcoocAll, rlOloss, rlQ,
               rlCalls, rlEvals, rlResult>>

shufVars == <<shRow, shCol, shWeights, shLogcooc, shOrig, shRandom, shNp, shEpochs, shEp>>

vocabVars == <<vcSize, vcCorpus, vcMin, vcPc, vcCounts, vcLines, vcFile, vcWrites>>

msgdVars == <<mgSize, mgEpochs, mgVerbose, mgCumulative, mgNcooc, mgPc, mgEp,
              mgStarted, mgLeft, mgParams, mgSeen>>

indVars == <<srcvocab, tgtvocab, indRow, indCol, indData, indCol0, indDone, indPc, indX>>

partVars == <<ptSize, ptVsrc, ptVtgt, ptD, ptLow, ptPc, ptU, ptM, ptUt, ptT, ptMSeen,
              ptRet, ptRetRows>>

mainVars == <<mode, mainPc, stages>>

vars == <<docVars, coocVars, samVars, symVars, sgdVars, epochVars, regVars,
          fmtVars, rlossVars, shufVars, vocabVars, msgdVars, indVars,
          partVars, mainVars>>
notDocVars == <<coocVars, samVars, symVars, sgdVars, epochVars, regVars,
                fmtVars, rlossVars, shufVars, vocabVars, msgdVars, indVars,
                partVars, mainVars>>
notCoocVars == <<docVars, samVars, symVars, sgdVars, epochVars, regVars,
                 fmtVars, rlossVars, shufVars, vocabVars, msgdVars, indVars,
                 partVars, mainVars>>
notSamVars == <<docVars, coocVars, symVars, sgdVars, epochVars, regVars,
                fmtVars, rlossVars, shufVars, vocabVars, msgdVars, indVars,
                partVars, mainVars>>
notSymVars == <<docVars, coocVars, samVars, sgdVars, epochVars, regVars,
                fmtVars, rlossVars, shufVars, vocabVars, msgdVars, indVars,
                partVars, mainVars>>
notSgdVars == <<docVars, coocVars, samVars, symVars, epochVars, regVars,
                fmtVars, rlossVars, shufVars, vocabVars, msgdVars, indVars,
                partVars, mainVars>>
notEpochVars == <<docVars, coocVars, samVars, symVars, sgdVars, regVars,
                  fmtVars, rlossVars, shufVars, vocabVars, msgdVars, indVars,
                  partVars, mainVars>>
notRegVars == <<docVars, coocVars, samVars, symVars, sgdVars, epochVars,
                fmtVars, rlossVars, shufVars, vocabVars, msgdVars, indVars,
                partVars, mainVars>>
notFmtVars == <<docVars, coocVars, samVars, symVars, sgdVars, epochVars,
                regVars, rlossVars, shufVars, vocabVars, msgdVars, indVars,
                partVars, mainVars>>
notRlossVars == <<docVars, coocVars, samVars, symVars, sgdVars, epochVars,
                  regVars, fmtVars, shufVars, vocabVars, msgdVars, indVars,
                  partVars, mainVars>>
notShufVars == <<docVars, coocVars, samVars, symVars, sgdVars, epochVars,
                 regVars, fmtVars, rlossVars, vocabVars, msgdVars, indVars,
                 partVars, mainVars>>
notVocabVars == <<docVars, coocVars, samVars, symVars, sgdVars, epochVars,
                  regVars, fmtVars, rlossVars, shufVars, msgdVars, indVars,
                  partVars, mainVars>>
notMsgdVars == <<docVars, coocVars, samVars, symVars, sgdVars, epochVars,
                 regVars, fmtVars, rlossVars, shufVars, vocabVars, indVars,
                 partVars, mainVars>>
notIndVars == <<docVars, coocVars, samVars, symVars, sgdVars, epochVars,
                regVars, fmtVars, rlossVars, shufVars, vocabVars, msgdVars,
                partVars, mainVars>>
notPartVars == <<docVars, coocVars, samVars, symVars, sgdVars, epochVars,
                 regVars, fmtVars, rlossVars, shufVars, vocabVars, msgdVars,
                 indVars, mainVars>>
notMainVars == <<docVars, coocVars, samVars, symVars, sgdVars, epochVars,
                 regVars, fmtVars, rlossVars, shufVars, vocabVars, msgdVars,
                 indVars, partVars>>

-----------------------------------------------------------------------------
(* Bounds of the model *)

\* the longest document (line) of the doc2cooc specification
MaxDocLen == 4
\* the largest window size
MaxWindow == 3

\* the largest group of workers
MaxSize == 2
\* the largest chunk size
MaxChunk == 2
\* the longest corpus, in lines
MaxLines == 3

\* the most manager calls (construct, create, teardown) of a worker
MaxCalls == 5

\* the longest cooccurrence file, in records
MaxRecords == 4
\* the largest group of workers reading a cooccurrence file
MaxSymSize == 4

\* the most epochs asked of sgd
MaxEpochs == 3
\* the most records of one pass of epoch
MaxCooc == 2
\* the vector dimension d of the epoch specification
D == 1

\* the most rows of a parameter array or reference embedding
MaxRows == 3
\* the most epochs run and losses computed on one regularized instance
MaxRegCalls == 2

\* the most records written to a file of the record format
MaxFmtRecords == 3

\* the unit of the local losses of the loss specification: a multiple of
\* every global record count of the model
LossUnit == 60

\* the most records of the arrays sgd reshuffles
MaxShuf == 3
\* the states of the pseudo-random generators of the model
RandomStates == 16

\* the largest min_count of vocab_count
MaxMinCount == 3

\* the most words of a vocabulary of induce_embeddings
MaxVocab == 3
\* the most records of the target cooccurrence file
MaxTgtRecords == 2

\* the largest group of workers of induce_embeddings
MaxPartSize == 3
\* the largest of Vsrc, Vtgt and d of induce_embeddings in a group
MaxDim == 3

\* the vocabulary size of the model; index V is the out-of-vocabulary sentinel
V == 2

\* the bytes of one record of the cooccurrence file
NBYTES == 12

-----------------------------------------------------------------------------
(* Python helpers *)

Min(a, b) == IF a < b THEN a ELSE b
Max(a, b) == IF a < b THEN b ELSE a

\* seq[k] of Python, k >= 0
At(seq, k) == seq[k + 1]

\* the index Python's slicing makes of a bound: negative bounds count from
\* the end, and every bound is clamped into 0..len
PySliceIndex(k, len) == IF k < 0 THEN Max(k + len, 0) ELSE Min(k, len)

\* seq[lo:hi] of Python
PySlice(seq, lo, hi) ==
    LET a == PySliceIndex(lo, Len(seq))
        b == PySliceIndex(hi, Len(seq))
    IN  IF a < b THEN SubSeq(seq, a + 1, b) ELSE <<>>

\* seq[lo:] of Python
PySliceFrom(seq, lo) == PySlice(seq, lo, Len(seq))

\* list(zip(s, t)) of Python: as long as the shorter one
Zip(s, t) == [k \in 1..Min(Len(s), Len(t)) |-> <<s[k], t[k]>>]

RECURSIVE Gcd(_, _)
Gcd(a, b) == IF b = 0 THEN a ELSE Gcd(b, a % b)

RECURSIVE LcmUpTo(_)
LcmUpTo(n) == IF n <= 1 THEN 1 ELSE (LcmUpTo(n - 1) * n) \div Gcd(LcmUpTo(n - 1), n)

\* The float 1.0, as the number of weight units it stands for: every
\* reciprocal distance 1.0/d, d <= MaxWindow, is a whole number of units.
One == LcmUpTo(MaxWindow)

-----------------------------------------------------------------------------
(* doc2cooc, src/solvers.py:57-73 *)

\* recip_dist: 1.0/d for d = window_size down to 1
recip_dist(W) == [k \in 1..W |-> One \div (W - k + 1)]

AdvanceStartLate(start, i, W) == IF i > W THEN start + 1 ELSE start

\* start += i >= window_size
AdvanceStart(start, i, W) == IF i >= W THEN start + 1 ELSE start

\* the triple appended for the pair (index, other) with weight rd
CanonicalPair(index, other, rd) ==
    IF index < other THEN <<index, other, rd>> ELSE <<other, index, rd>>

\* the inner loop: for rd, other in zip(...): if other != V: append
RECURSIVE InnerLoop(_, _, _, _)
InnerLoop(pairs, index, Vn, out) ==
    IF pairs = <<>> THEN out
    ELSE LET rd == Head(pairs)[1]
             other == Head(pairs)[2]
         IN  InnerLoop(Tail(pairs), index, Vn,
                       IF other /= Vn
                       THEN Append(out, CanonicalPair(index, other, rd))
                       ELSE out)

\* the outer loop from position i on
RECURSIVE OuterLoop(_, _, _, _, _, _, _)
OuterLoop(idx, recip, W, Vn, i, start, out) ==
    IF i >= Len(idx) THEN out
    ELSE LET index == At(idx, i)
             pairs == Zip(PySliceFrom(recip, start - i), PySlice(idx, start, i))
             out2  == IF index /= Vn THEN InnerLoop(pairs, index, Vn, out) ELSE out
         IN  OuterLoop(idx, recip, W, Vn, i + 1, AdvanceStart(start, i, W), out2)

doc2cooc(idx, recip, W, Vn) == OuterLoop(idx, recip, W, Vn, 0, 0, <<>>)

-----------------------------------------------------------------------------
(* The doc2cooc specification: a document and a window size, then the call *)

RECURSIVE SeqsUpTo(_, _)
SeqsUpTo(S, n) ==
    IF n = 0 THEN {<<>>}
    ELSE LET shorter == SeqsUpTo(S, n - 1)
         IN  shorter \cup {Append(s, x) : s \in {t \in shorter : Len(t) = n - 1}, x \in S}

DocIdle == indices = <<>> /\ window_size = 0 /\ docOut = <<>> /\ docPc = "idle"

DocInit ==
    /\ indices \in SeqsUpTo(0..V, MaxDocLen)
    /\ window_size \in 1..MaxWindow
    /\ docOut = <<>>
    /\ docPc = "ready"

CallDoc2cooc ==
    /\ docPc = "ready"
    /\ docOut' = doc2cooc(indices, recip_dist(window_size), window_size, V)
    /\ docPc' = "done"
    /\ UNCHANGED <<indices, window_size, notDocVars>>

-----------------------------------------------------------------------------
(* cooc_count, src/solvers.py:75-121 *)

\* coocfile before rank 0 has written it; <<tally>> afterwards
NotWritten == <<>>

Ranks == 0..(size - 1)

\* the keys of a Counter of cooccurrences
PairKeys == (0..(V - 1)) \X (0..(V - 1))

\* Counter()
EmptyCounter == [k \in PairKeys |-> 0]

\* counts[(i, j)] += v for every triple, in order
RECURSIVE AddTriples(_, _)
AddTriples(cnt, triples) ==
    IF triples = <<>> THEN cnt
    ELSE LET t == Head(triples)
             k == <<t[1], t[2]>>
         IN  AddTriples([cnt EXCEPT ![k] = @ + t[3]], Tail(triples))

\* the sum of two Counters
CounterSum(a, b) == [k \in PairKeys |-> a[k] + b[k]]

\* the lines islice(f, CHUNK) yields to a handle that has consumed p lines
ChunkLines(p) == SubSeq(corpus, p + 1, Min(p + chunk, Len(corpus)))

\* i%size == rank, i the line's index within the chunk
OwnsLine(i, n, rank) == i % n = rank

\* the triples of the chunk's lines from line i (within the chunk) on that
\* rank owns, in the order the loop meets them
RECURSIVE ChunkTriples(_, _, _, _)
ChunkTriples(lines, i, n, rank) ==
    IF i >= Len(lines) THEN <<>>
    ELSE (IF OwnsLine(i, n, rank)
          THEN doc2cooc(At(lines, i), recip_dist(coocWindow), coocWindow, V)
          ELSE <<>>) \o ChunkTriples(lines, i + 1, n, rank)

\* v after the for loops of one iteration: FLOAT(0.0), or the loop variable's
\* last value
LastV(triples) == IF triples = <<>> THEN 0 ELSE triples[Len(triples)][3]

\* lines 101-104, one iteration's local work
ReadChunk(r) ==
    /\ pc[r] = "read"
    /\ LET triples == ChunkTriples(ChunkLines(pos[r]), 0, size, r)
       IN  /\ counts' = [counts EXCEPT ![r] = AddTriples(@, triples)]
           /\ v' = [v EXCEPT ![r] = LastV(triples)]
    /\ pos' = [pos EXCEPT ![r] = Min(@ + chunk, Len(corpus))]
    /\ iter' = [iter EXCEPT ![r] = @ + 1]
    /\ pc' = [pc EXCEPT ![r] = IF size > 1 THEN "allreduce" ELSE "test"]
    /\ UNCHANGED <<size, chunk, corpus, coocWindow, coocfile, notCoocVars>>

RECURSIVE SumV(_, _)
SumV(f, n) == IF n = 0 THEN 0 ELSE f[n - 1] + SumV(f, n - 1)

RECURSIVE SumCounters(_, _)
SumCounters(f, n) == IF n = 0 THEN EmptyCounter ELSE CounterSum(f[n - 1], SumCounters(f, n - 1))

\* lines 106-107: comm.allreduce(v), complete once every rank has called it;
\* every rank breaks when the sum is zero
Allreduce ==
    /\ size > 1
    /\ \A r \in Ranks : pc[r] = "allreduce"
    /\ pc' = [r \in Ranks |-> IF SumV(v, size) = 0 THEN "left" ELSE "reduce"]
    /\ UNCHANGED <<size, chunk, corpus, coocWindow, pos, v, counts, iter, coocfile, notCoocVars>>

\* lines 108-110: comm.reduce(counts, root=0), then the reset on the other ranks
Reduce ==
    /\ size > 1
    /\ \A r \in Ranks : pc[r] = "reduce"
    /\ counts' = [r \in Ranks |-> IF r = 0 THEN SumCounters(counts, size) ELSE EmptyCounter]
    /\ pc' = [r \in Ranks |-> "test"]
    /\ UNCHANGED <<size, chunk, corpus, coocWindow, pos, v, iter, coocfile, notCoocVars>>

\* lines 111-112: if not v: break
BreakIfNoV(r) ==
    /\ pc[r] = "test"
    /\ pc' = [pc EXCEPT ![r] = IF v[r] = 0 THEN "left" ELSE "read"]
    /\ UNCHANGED <<size, chunk, corpus, coocWindow, pos, v, counts, iter, coocfile, notCoocVars>>

\* lines 117-121: rank 0 writes its Counter; the others return
WriteCooc(r) ==
    /\ pc[r] = "left"
    /\ coocfile' = IF r = 0 THEN <<counts[0]>> ELSE coocfile
    /\ pc' = [pc EXCEPT ![r] = "done"]
    /\ UNCHANGED <<size, chunk, corpus, coocWindow, pos, v, counts, iter, notCoocVars>>

\* the lines a corpus of the model is made of: one word, a pair, the same
\* word twice, an out-of-vocabulary word, three words
CorpusLines == {<<0>>, <<0, 1>>, <<1, 1>>, <<V, 0>>, <<0, 1, 0>>}

CoocIdle ==
    /\ size = 0 /\ chunk = 0 /\ corpus = <<>> /\ coocWindow = 0
    /\ pc = <<>> /\ pos = <<>> /\ v = <<>> /\ counts = <<>> /\ iter = <<>>
    /\ coocfile = NotWritten

CoocInit ==
    /\ size \in 1..MaxSize
    /\ chunk \in 1..MaxChunk
    /\ corpus \in SeqsUpTo(CorpusLines, MaxLines)
    /\ coocWindow \in 1..MaxWindow
    /\ pc = [r \in Ranks |-> "read"]
    /\ pos = [r \in Ranks |-> 0]
    /\ v = [r \in Ranks |-> 0]
    /\ counts = [r \in Ranks |-> EmptyCounter]
    /\ iter = [r \in Ranks |-> 0]
    /\ coocfile = NotWritten

-----------------------------------------------------------------------------
(* SharedArrayManager, src/solvers.py:124-158 *)

SamRanks == 0..(samSize - 1)

\* the array create returns in a group of one: private memory, no name
Private == 0

\* the programs of the model: every worker constructs a manager first; a
\* create or a teardown is a call on the manager constructed last
Programs ==
    {p \in SeqsUpTo({"new", "create", "exit"}, MaxCalls) : p /= <<>> => p[1] = "new"}

\* the call rank r is to make or is making
Call(r) == IF ip[r] < Len(prog) THEN prog[ip[r] + 1] ELSE "none"

\* __init__ (lines 128-131): a new instance; _shared is the class's list
New(r) ==
    /\ samPc[r] = "run" /\ Call(r) = "new"
    /\ instNo' = [instNo EXCEPT ![r] = @ + 1]
    /\ ip' = [ip EXCEPT ![r] = @ + 1]
    /\ UNCHANGED <<samSize, prog, samPc, shared, exitIdx, clock, filename, shm,
                   initialised, bcastQ, handles, returned, creator, deleted, notSamVars>>

\* create, lines 144-151: rank != 0 waits for the broadcast; rank 0 of a
\* group of one returns a private copy; rank 0 of a larger group goes on
EnterCreate(r) ==
    /\ samPc[r] = "run" /\ Call(r) = "create"
    /\ IF r /= 0
       THEN /\ samPc' = [samPc EXCEPT ![r] = "recv"]
            /\ UNCHANGED <<ip, handles, returned>>
       ELSE IF samSize = 1
            THEN /\ handles' = [handles EXCEPT ![r] = Append(@, Private)]
                 /\ returned' = [returned EXCEPT ![r] = @ + 1]
                 /\ ip' = [ip EXCEPT ![r] = @ + 1]
                 /\ UNCHANGED samPc
            ELSE /\ samPc' = [samPc EXCEPT ![r] = "alloc"]
                 /\ UNCHANGED <<ip, handles, returned>>
    /\ UNCHANGED <<samSize, prog, instNo, shared, exitIdx, clock, filename, shm,
                   initialised, bcastQ, creator, deleted, notSamVars>>

AfterSaCreateBroadcastFirst == "bcast"

\* where rank 0 goes after sa.create: to shared += array (line 154)
AfterSaCreate == "init"

\* lines 152-153: filename = str(time.time()); sa.create(filename, ...).
\* The clock has moved on since the last name was taken.
LeaderAlloc ==
    /\ samPc[0] = "alloc"
    /\ filename' = clock
    /\ clock' = clock + 1
    /\ shm' = shm \cup {clock}
    /\ creator' = Append(creator, instNo[0])
    /\ samPc' = [samPc EXCEPT ![0] = AfterSaCreate]
    /\ UNCHANGED <<samSize, prog, ip, instNo, shared, exitIdx, initialised, bcastQ,
                   handles, returned, deleted, notSamVars>>

\* line 154: shared += array.astype(dtype)
LeaderInit ==
    /\ samPc[0] = "init"
    /\ initialised' = initialised \cup {filename}
    /\ samPc' = [samPc EXCEPT ![0] = "bcast"]
    /\ UNCHANGED <<samSize, prog, ip, instNo, shared, exitIdx, clock, filename, shm,
                   bcastQ, handles, returned, creator, deleted, notSamVars>>

\* line 155: self._shared.append(comm.bcast(filename, root=0)); the root does
\* not wait for the receivers
LeaderBcast ==
    /\ samPc[0] = "bcast"
    /\ bcastQ' = [r \in SamRanks |-> IF r = 0 THEN bcastQ[r] ELSE Append(bcastQ[r], filename)]
    /\ shared' = [shared EXCEPT ![0] = Append(@, filename)]
    /\ handles' = [handles EXCEPT ![0] = Append(@, filename)]
    /\ samPc' = [samPc EXCEPT ![0] = "barrier"]
    /\ UNCHANGED <<samSize, prog, ip, instNo, exitIdx, clock, filename, shm,
                   initialised, returned, creator, deleted, notSamVars>>

\* the name a receiver attaches: the one comm.bcast(None, root=0) returned
AttachTarget(q, mine) == Head(q)

\* line 147: shared = sa.attach(comm.bcast(None, root=0)); attaching a name
\* that does not exist is fatal
Attach(r) ==
    /\ samPc[r] = "recv"
    /\ bcastQ[r] /= <<>>
    /\ bcastQ' = [bcastQ EXCEPT ![r] = Tail(@)]
    /\ LET name == AttachTarget(bcastQ[r], handles[r])
       IN  IF name \in shm
           THEN /\ handles' = [handles EXCEPT ![r] = Append(@, name)]
                /\ samPc' = [samPc EXCEPT ![r] = "barrier"]
           ELSE /\ samPc' = [samPc EXCEPT ![r] = "raised"]
                /\ UNCHANGED handles
    /\ UNCHANGED <<samSize, prog, ip, instNo, shared, exitIdx, clock, filename, shm,
                   initialised, returned, creator, deleted, notSamVars>>

\* lines 157-158: checkpoint(comm), a barrier of the whole group, then return
Checkpoint ==
    /\ samSize > 1
    /\ \A r \in SamRanks : samPc[r] = "barrier"
    /\ samPc' = [r \in SamRanks |-> "run"]
    /\ returned' = [r \in SamRanks |-> returned[r] + 1]
    /\ ip' = [r \in SamRanks |-> ip[r] + 1]
    /\ UNCHANGED <<samSize, prog, instNo, shared, exitIdx, clock, filename, shm,
                   initialised, bcastQ, handles, creator, deleted, notSamVars>>

\* __exit__, line 139: for array in self._shared
EnterExit(r) ==
    /\ samPc[r] = "run" /\ Call(r) = "exit"
    /\ samPc' = [samPc EXCEPT ![r] = "exit"]
    /\ exitIdx' = [exitIdx EXCEPT ![r] = 0]
    /\ UNCHANGED <<samSize, prog, ip, instNo, shared, clock, filename, shm,
                   initialised, bcastQ, handles, returned, creator, deleted, notSamVars>>

\* line 140: sa.delete(array). Deleting a name that no longer exists fails
\* in the library: the call either raises out of __exit__ or is ignored.
ExitDelete(r) ==
    /\ samPc[r] = "exit"
    /\ exitIdx[r] < Len(shared[r])
    /\ LET name == At(shared[r], exitIdx[r])
       IN  /\ deleted' = Append(deleted, [name |-> name, inst |-> instNo[r], rank |-> r])
           /\ shm' = shm \ {name}
           /\ \/ /\ exitIdx' = [exitIdx EXCEPT ![r] = @ + 1]
                 /\ UNCHANGED samPc
              \/ /\ name \notin shm
                 /\ samPc' = [samPc EXCEPT ![r] = "raised"]
                 /\ UNCHANGED exitIdx
    /\ UNCHANGED <<samSize, prog, ip, instNo, shared, clock, filename,
                   initialised, bcastQ, handles, returned, creator, notSamVars>>

\* the loop of __exit__ is over: the list is left as it is
LeaveExit(r) ==
    /\ samPc[r] = "exit"
    /\ exitIdx[r] >= Len(shared[r])
    /\ samPc' = [samPc EXCEPT ![r] = "run"]
    /\ ip' = [ip EXCEPT ![r] = @ + 1]
    /\ UNCHANGED <<samSize, prog, instNo, shared, exitIdx, clock, filename, shm,
                   initialised, bcastQ, handles, returned, creator, deleted, notSamVars>>

SamIdle ==
    /\ samSize = 0 /\ prog = <<>> /\ ip = <<>> /\ samPc = <<>> /\ instNo = <<>>
    /\ shared = <<>> /\ exitIdx = <<>> /\ clock = 0 /\ filename = 0 /\ shm = {}
    /\ initialised = {} /\ bcastQ = <<>> /\ handles = <<>> /\ returned = <<>>
    /\ creator = <<>> /\ deleted = <<>>

SamInit ==
    /\ samSize \in 1..MaxSize
    /\ prog \in Programs
    /\ ip = [r \in SamRanks |-> 0]
    /\ samPc = [r \in SamRanks |-> "run"]
    /\ instNo = [r \in SamRanks |-> 0]
    /\ shared = [r \in SamRanks |-> <<>>]
    /\ exitIdx = [r \in SamRanks |-> 0]
    /\ clock = 1
    /\ filename = 0
    /\ shm = {}
    /\ initialised = {}
    /\ bcastQ = [r \in SamRanks |-> <<>>]
    /\ handles = [r \in SamRanks |-> <<>>]
    /\ returned = [r \in SamRanks |-> 0]
    /\ creator = <<>>
    /\ deleted = <<>>

-----------------------------------------------------------------------------
(* splitcooc and symcooc, src/solvers.py:161-200 *)

SymRanks == 0..(symSize - 1)

\* flength = f.seek(0, 2): the file holds whole records
FLength == NBYTES * Len(records)

EqualShareBoundary(flength, rank, n) == ((flength \div n) \div NBYTES) * rank

\* int(flength*rank/size / NBYTES): the quotient is not negative, so int
\* rounds it down
Boundary(flength, rank, n) == (flength * rank) \div (n * NBYTES)

\* offset, line 187
Offset(flength, rank, n) == Boundary(flength, rank, n)

\* ncooc, line 188
Ncooc(flength, rank, n) == Boundary(flength, rank + 1, n) - Offset(flength, rank, n)

\* f.seek(NBYTES*offset), then splitcooc(f, ncooc): ncooc records from there
ReadRecords(offset, ncooc) == SubSeq(records, offset + 1, offset + ncooc)

SymMaskWithDiagonal(rec) == rec[1] <= rec[2]

\* sym = row < col
SymMask(rec) == rec[1] < rec[2]

\* val[sym], col[sym], row[sym]: the records under the mask, row and col swapped
RECURSIVE Swapped(_)
Swapped(recs) ==
    IF recs = <<>> THEN <<>>
    ELSE (IF SymMask(Head(recs))
          THEN <<<<Head(recs)[2], Head(recs)[1], Head(recs)[3]>>>>
          ELSE <<>>) \o Swapped(Tail(recs))

\* lines 195-200: the records read, then the swapped copies
Symmetrized(recs) == recs \o Swapped(recs)

\* symcooc on rank r
Symcooc(r) ==
    /\ symPc[r] = "ready"
    /\ LET offset == Offset(FLength, r, symSize)
           ncooc  == Ncooc(FLength, r, symSize)
       IN  /\ symRange' = [symRange EXCEPT ![r] = [offset |-> offset, ncooc |-> ncooc]]
           /\ symOut' = [symOut EXCEPT ![r] = Symmetrized(ReadRecords(offset, ncooc))]
    /\ symPc' = [symPc EXCEPT ![r] = "done"]
    /\ UNCHANGED <<symSize, records, notSymVars>>

\* the records an upper-triangular file of the model is made of (row <= col):
\* two diagonal records and one off-diagonal pair with two weights
UpperRecords == {<<0, 0, 5>>, <<0, 1, 2>>, <<0, 1, 3>>, <<1, 1, 5>>}

SymIdle ==
    symSize = 0 /\ records = <<>> /\ symPc = <<>> /\ symRange = <<>> /\ symOut = <<>>

SymInit ==
    /\ symSize \in 1..MaxSymSize
    /\ records \in SeqsUpTo(UpperRecords, MaxRecords)
    /\ symPc = [r \in SymRanks |-> "ready"]
    /\ symRange = [r \in SymRanks |-> [offset |-> 0, ncooc |-> 0]]
    /\ symOut = [r \in SymRanks |-> <<>>]

-----------------------------------------------------------------------------
(* GloVe.sgd in a group of one, src/solvers.py:315-350 *)

\* comm = None: no communicator (the ImportError branch of lines 622-626)
NoComm == "None"
\* a communicator of one process
Comm1 == "comm of size 1"

\* a method call on self._comm: on None the attribute lookup raises
CallOnComm(next) == IF sgdComm = NoComm THEN "raised" ELSE next

\* lines 327-333: the seed, the first message, and the initial loss when verbose
\* and not cumulative; loss() of a group of one calls nothing on comm
\* (lines 291-294)
SgdBegin ==
    /\ sgdPc = "begin"
    /\ sgdPc' = "ncooc"
    /\ UNCHANGED <<sgdComm, epochs, verbose, cumulative, ep, commCalls, notSgdVars>>

\* line 334: ncooc = comm.allreduce(self.ncooc)
SgdNcooc ==
    /\ sgdPc = "ncooc"
    /\ commCalls' = commCalls + 1
    /\ sgdPc' = CallOnComm("loop")
    /\ UNCHANGED <<sgdComm, epochs, verbose, cumulative, ep, notSgdVars>>

\* line 337: for ep in range(epochs), and the return after the last epoch
SgdLoop ==
    /\ sgdPc = "loop"
    /\ sgdPc' = IF ep < epochs THEN "epoch" ELSE "returned"
    /\ UNCHANGED <<sgdComm, epochs, verbose, cumulative, ep, commCalls, notSgdVars>>

\* lines 339-343: the message, the reshuffle and the epoch
SgdEpoch ==
    /\ sgdPc = "epoch"
    /\ sgdPc' = "report"
    /\ UNCHANGED <<sgdComm, epochs, verbose, cumulative, ep, commCalls, notSgdVars>>

\* lines 345-346: loss = comm.allreduce(loss) if cumulative else self.loss()
SgdReport ==
    /\ sgdPc = "report"
    /\ IF verbose /\ cumulative
       THEN /\ commCalls' = commCalls + 1
            /\ sgdPc' = CallOnComm("checkpoint")
       ELSE /\ sgdPc' = "checkpoint"
            /\ UNCHANGED commCalls
    /\ UNCHANGED <<sgdComm, epochs, verbose, cumulative, ep, notSgdVars>>

\* lines 347-350: checkpoint(comm) and the message; both take the
\* communicator as an argument and do nothing with None
SgdCheckpoint ==
    /\ sgdPc = "checkpoint"
    /\ ep' = ep + 1
    /\ sgdPc' = "loop"
    /\ UNCHANGED <<sgdComm, epochs, verbose, cumulative, commCalls, notSgdVars>>

SgdIdle ==
    /\ sgdComm = "" /\ epochs = 0 /\ verbose = FALSE /\ cumulative = FALSE
    /\ sgdPc = "idle" /\ ep = 0 /\ commCalls = 0

SgdInit ==
    /\ sgdComm \in {NoComm, Comm1}
    /\ epochs \in 0..MaxEpochs
    /\ verbose \in BOOLEAN
    /\ cumulative \in BOOLEAN
    /\ sgdPc = "begin"
    /\ ep = 0
    /\ commCalls = 0

-----------------------------------------------------------------------------
(* GloVe.epoch, src/solvers.py:296-313 *)

\* the words of the epoch specification
Words == {0, 1}

\* np.dot(a.T, b) of two vectors of dimension D
RECURSIVE DotUpTo(_, _, _)
DotUpTo(a, b, n) == IF n = 0 THEN 0 ELSE a[n] * b[n] + DotUpTo(a, b, n - 1)
Dot(a, b) == DotUpTo(a, b, D)

\* c*a and a - b on vectors
Scale(c, a) == [n \in 1..D |-> c * a[n]]
Minus(a, b) == [n \in 1..D |-> a[n] - b[n]]

\* coef of the record rec = (i, j, weight, logcooc), lines 303-306
Coef(rec) ==
    LET error  == Dot(wv[rec[1]], cv[rec[2]]) + wb[rec[1]] + cb[rec[2]] - rec[4]
        werror == rec[3] * error
    IN  werror * etax2

\* wbi -= coef and cbj -= coef (lines 310-311): wbi = wb[i] and cbj = cb[j]
\* are numbers, not views, so the subtraction rebinds the local name and
\* the array keeps its element
BiasAfterLocalUpdate(arr, i, local) == arr

\* one record of the loop, lines 302-312. wvi = wv[i] and cvj = cv[j] are
\* views of rows: cvj -= ... and wvi -= ... write the arrays.
EpochRecord ==
    /\ done < Len(cooc)
    /\ LET rec  == At(cooc, done)
           i    == rec[1]
           j    == rec[2]
           coef == Coef(rec)
           upd  == Scale(coef, cv[j])
       IN  /\ cv' = [cv EXCEPT ![j] = Minus(@, Scale(coef, wv[i]))]
           /\ wv' = [wv EXCEPT ![i] = Minus(@, upd)]
           /\ wb' = BiasAfterLocalUpdate(wb, i, wb[i] - coef)
           /\ cb' = BiasAfterLocalUpdate(cb, j, cb[j] - coef)
           /\ last' = <<[i |-> i, j |-> j, coef |-> coef,
                         wv |-> wv, cv |-> cv, wb |-> wb, cb |-> cb]>>
    /\ done' = done + 1
    /\ UNCHANGED <<cooc, etax2, notEpochVars>>

\* the vector and bias arrays a pass of the model starts from
VectorArrays ==
    {[w \in Words |-> [n \in 1..D |-> 1]],
     [w \in Words |-> [n \in 1..D |-> IF w = 0 THEN -1 ELSE 2]]}
BiasArrays == {[w \in Words |-> 0], [w \in Words |-> w + 1]}

\* the records of a pass: a word pair, weight 1, log-cooccurrence 0 or 1
CoocRecords == Words \X Words \X {1} \X {0, 1}

EpochIdle ==
    /\ wv = <<>> /\ cv = <<>> /\ wb = <<>> /\ cb = <<>> /\ cooc = <<>>
    /\ etax2 = 0 /\ done = 0 /\ last = <<>>

EpochInit ==
    /\ wv \in VectorArrays
    /\ cv \in VectorArrays
    /\ wb \in BiasArrays
    /\ cb \in BiasArrays
    /\ cooc \in SeqsUpTo(CoocRecords, MaxCooc)
    /\ etax2 \in {1, 2}
    /\ done = 0
    /\ last = <<>>

-----------------------------------------------------------------------------
(* RegularizedGloVe.__init__ and its first uses, src/solvers.py:238-254, *)
(* 410-453                                                                *)

\* the assert of line 253
VdAssert == ~(~regInitGiven /\ ~regVdGiven)

\* GloVe.__init__, lines 251-254: the manager, the cooccurrence data, the
\* assert, the parameter arrays of regV rows
GloVeInit ==
    /\ regPc = "new"
    /\ regPc' = IF VdAssert THEN "glove" ELSE "assertion failed"
    /\ UNCHANGED <<regV, regVdGiven, regInitGiven, srcRows, wccLen, regEpochs,
                   regLosses, notRegVars>>

\* RegularizedGloVe.__init__ after super().__init__, lines 413-427:
\* create(src), _word_cooc_counts(src.shape[0]) and the loss lambdas take
\* src.shape[0] as it is; no line compares it with the rows of the model
RegularizedGloVeInit ==
    /\ regPc = "glove"
    /\ wccLen' = srcRows
    /\ regPc' = "constructed"
    /\ UNCHANGED <<regV, regVdGiven, regInitGiven, srcRows, regEpochs,
                   regLosses, notRegVars>>

\* a - b of two arrays of a and b rows and equal columns: numpy broadcasts
\* a single row and raises on any other difference
Broadcastable(a, b) == a = b \/ a = 1 \/ b = 1

\* loss() of the instance in a group of one, line 427: oloss() + rloss(),
\* rloss subtracting src from embeddings() (line 423)
RegLoss ==
    /\ regPc = "constructed"
    /\ regLosses < MaxRegCalls
    /\ IF Broadcastable(regV, srcRows)
       THEN regLosses' = regLosses + 1 /\ UNCHANGED regPc
       ELSE regPc' = "raised in loss" /\ UNCHANGED regLosses
    /\ UNCHANGED <<regV, regVdGiven, regInitGiven, srcRows, wccLen, regEpochs,
                   notRegVars>>

\* epoch of the instance, lines 431-453, over records whose largest word
\* index is top: src[i] and wcc[i] are read for every word of a record. The
\* loop is compiled; an index past the end of src is read unchecked or
\* raises, as the build has it.
RegEpoch(top) ==
    /\ regPc = "constructed"
    /\ regEpochs < MaxRegCalls
    /\ \/ regEpochs' = regEpochs + 1 /\ UNCHANGED regPc
       \/ /\ top >= srcRows
          /\ regPc' = "raised in epoch" /\ UNCHANGED regEpochs
    /\ UNCHANGED <<regV, regVdGiven, regInitGiven, srcRows, wccLen, regLosses,
                   notRegVars>>

RegIdle ==
    /\ regV = 0 /\ regVdGiven = FALSE /\ regInitGiven = FALSE /\ srcRows = 0
    /\ wccLen = 0 /\ regPc = "idle" /\ regEpochs = 0 /\ regLosses = 0

RegInit ==
    /\ regV \in 1..MaxRows
    /\ regVdGiven \in BOOLEAN
    /\ regInitGiven \in BOOLEAN
    /\ srcRows \in 1..MaxRows
    /\ wccLen = 0
    /\ regPc = "new"
    /\ regEpochs = 0
    /\ regLosses = 0

-----------------------------------------------------------------------------
(* The record format: struct.pack(FMT, a, b, c) of cooc_count and        *)
(* splitcooc, src/solvers.py:18-22, 119-121, 161-179                     *)
(*                                                                         *)
(* A 32-bit word is the pair <<hi, lo>> of its 16-bit halves: the number   *)
(* hi * 2^16 + lo for an unsigned integer, the bit pattern for a float32.  *)

Half == 65536
\* the halves hi of the words whose sign bit is set
SignBit == 32768

\* the four bytes of a word in the byte order of the machine (little-endian)
WordBytes(w) == <<w[2] % 256, w[2] \div 256, w[1] % 256, w[1] \div 256>>

\* the word of four bytes
BytesWord(b) == <<b[3] + 256 * b[4], b[1] + 256 * b[2]>>

\* format 'i' of struct.pack takes -2^31 <= n < 2^31; a, b are np.uint32
FitsFormatI(w) == w[1] < SignBit

\* struct.pack(FMT, a, b, c), FMT = 'iif': three words, no padding
Pack(rec) == WordBytes(rec[1]) \o WordBytes(rec[2]) \o WordBytes(rec[3])

\* line 121 for the next record: f.write(struct.pack(FMT, a, b, c))
WriteRecord ==
    /\ fmtPc = "write"
    /\ Len(fmtFile) < NBYTES * Len(fmtRecords)
    /\ LET rec == fmtRecords[Len(fmtFile) \div NBYTES + 1]
       IN  IF FitsFormatI(rec[1]) /\ FitsFormatI(rec[2])
           THEN fmtFile' = fmtFile \o Pack(rec) /\ UNCHANGED fmtPc
           ELSE fmtPc' = "struct.error" /\ UNCHANGED fmtFile
    /\ UNCHANGED <<fmtRecords, fmtNcooc, fmtRow, fmtCol, fmtVal, notFmtVars>>

\* the with block of line 119 ends: the file is closed
CloseFile ==
    /\ fmtPc = "write"
    /\ Len(fmtFile) = NBYTES * Len(fmtRecords)
    /\ fmtPc' = "open"
    /\ UNCHANGED <<fmtRecords, fmtFile, fmtNcooc, fmtRow, fmtCol, fmtVal, notFmtVars>>

\* splitcooc(f) on the file from its start, lines 166-169:
\* ncooc = int((f.seek(0, 2)-position)/NBYTES)
CountRecords ==
    /\ fmtPc = "open"
    /\ fmtNcooc' = Len(fmtFile) \div NBYTES
    /\ fmtPc' = "read"
    /\ UNCHANGED <<fmtRecords, fmtFile, fmtRow, fmtCol, fmtVal, notFmtVars>>

\* struct.unpack(FMT, f.read(NBYTES)) of record k (from 0): the three words
Unpack(k) ==
    LET b == SubSeq(fmtFile, NBYTES * k + 1, NBYTES * (k + 1))
    IN  <<BytesWord(SubSeq(b, 1, 4)), BytesWord(SubSeq(b, 5, 8)), BytesWord(SubSeq(b, 9, 12))>>

\* format 'i' gives a negative integer when the sign bit is set
IsNegative(w) == w[1] >= SignBit

\* lines 171-175, one record: INT(i), INT(j) appended, FLOAT(xij) yielded.
\* INT of a negative integer wraps to the same bit pattern or raises
\* OverflowError, as the numpy of the build has it.
ReadRecord ==
    /\ fmtPc = "read"
    /\ Len(fmtVal) < fmtNcooc
    /\ LET rec == Unpack(Len(fmtVal))
       IN  \/ /\ fmtRow' = Append(fmtRow, rec[1])
              /\ fmtCol' = Append(fmtCol, rec[2])
              /\ fmtVal' = Append(fmtVal, rec[3])
              /\ UNCHANGED fmtPc
           \/ /\ IsNegative(rec[1]) \/ IsNegative(rec[2])
              /\ fmtPc' = "OverflowError"
              /\ UNCHANGED <<fmtRow, fmtCol, fmtVal>>
    /\ UNCHANGED <<fmtRecords, fmtFile, fmtNcooc, notFmtVars>>

\* the first loop of splitcooc is over: the rows, then the columns, are
\* yielded from the deques in order (lines 177-179)
YieldIndices ==
    /\ fmtPc = "read"
    /\ Len(fmtVal) = fmtNcooc
    /\ fmtPc' = "done"
    /\ UNCHANGED <<fmtRecords, fmtFile, fmtNcooc, fmtRow, fmtCol, fmtVal, notFmtVars>>

\* the records of the model: rows and columns 0, 1, 2, 2^31 - 1, 2^31 and
\* 2^32 - 1, weights the float32 bit patterns of 2.0 and 3.5
FmtRecordSet ==
    {<<<<0, 0>>, <<0, 1>>, <<16384, 0>>>>,
     <<<<0, 1>>, <<0, 2>>, <<16480, 0>>>>,
     <<<<0, 2>>, <<SignBit - 1, Half - 1>>, <<16384, 0>>>>,
     <<<<0, 1>>, <<SignBit, 0>>, <<16480, 0>>>>,
     <<<<Half - 1, Half - 1>>, <<Half - 1, Half - 1>>, <<16384, 0>>>>}

FmtIdle ==
    /\ fmtRecords = <<>> /\ fmtFile = <<>> /\ fmtPc = "idle" /\ fmtNcooc = 0
    /\ fmtRow = <<>> /\ fmtCol = <<>> /\ fmtVal = <<>>

FmtInit ==
    /\ fmtRecords \in SeqsUpTo(FmtRecordSet, MaxFmtRecords)
    /\ fmtFile = <<>>
    /\ fmtPc = "write"
    /\ fmtNcooc = 0
    /\ fmtRow = <<>>
    /\ fmtCol = <<>>
    /\ fmtVal = <<>>

-----------------------------------------------------------------------------
(* loss() of RegularizedGloVe in a group, src/solvers.py:283-294, 419-427 *)

RlRanks == 0..(rlSize - 1)

\* the sum of f over the ranks 0..n-1
RECURSIVE SumOver(_, _)
SumOver(f, n) == IF n = 0 THEN 0 ELSE f[n - 1] + SumOver(f, n - 1)

\* loss/ncooc; the losses of the model are whole multiples of every ncooc
LossPerCooc(loss, ncooc) == loss \div ncooc

\* lines 285-290 of oloss(): the local errors and their weighted inner
\* product; then line 291
LocalLoss(r) ==
    /\ rlPc[r] = "call"
    /\ rlPc' = [rlPc EXCEPT ![r] = IF rlSize > 1 THEN "allreduce ncooc" ELSE "local"]
    /\ UNCHANGED <<rlSize, rlLocal, rlNcooc, rlPenalty, rlNcoocAll, rlOloss, rlQ,
                   rlCalls, rlEvals, rlResult, notRlossVars>>

\* line 294, a group of one: return loss/ncooc
ReturnLocal ==
    /\ rlPc[0] = "local"
    /\ rlOloss' = [rlOloss EXCEPT ![0] = LossPerCooc(rlLocal[0], rlNcooc[0])]
    /\ rlPc' = [rlPc EXCEPT ![0] = "rloss"]
    /\ UNCHANGED <<rlSize, rlLocal, rlNcooc, rlPenalty, rlNcoocAll, rlQ,
                   rlCalls, rlEvals, rlResult, notRlossVars>>

\* line 292: ncooc = self._comm.allreduce(ncooc), complete once every rank
\* has called it
AllreduceNcooc ==
    /\ rlSize > 1
    /\ \A r \in RlRanks : rlPc[r] = "allreduce ncooc"
    /\ rlNcoocAll' = [r \in RlRanks |-> SumOver(rlNcooc, rlSize)]
    /\ rlCalls' = [r \in RlRanks |-> Append(rlCalls[r], "allreduce")]
    /\ rlPc' = [r \in RlRanks |-> "allreduce loss"]
    /\ UNCHANGED <<rlSize, rlLocal, rlNcooc, rlPenalty, rlOloss, rlQ,
                   rlEvals, rlResult, notRlossVars>>

\* the rank whose lambda evaluates rloss(): the else branch of line 420
EvaluatesPenalty(r) == r = 0

\* line 293: return self._comm.allreduce(loss/ncooc); the lambda goes on to
\* its second operand
AllreduceLoss ==
    /\ rlSize > 1
    /\ \A r \in RlRanks : rlPc[r] = "allreduce loss"
    /\ rlOloss' = [r \in RlRanks |->
                     SumOver([q \in RlRanks |-> LossPerCooc(rlLocal[q], rlNcoocAll[q])], rlSize)]
    /\ rlCalls' = [r \in RlRanks |-> Append(rlCalls[r], "allreduce")]
    /\ rlPc' = [r \in RlRanks |-> IF EvaluatesPenalty(r) THEN "rloss" ELSE "recv"]
    /\ UNCHANGED <<rlSize, rlLocal, rlNcooc, rlPenalty, rlNcoocAll, rlQ,
                   rlEvals, rlResult, notRlossVars>>

\* line 423 on rank 0: rloss(), the argument of bcast (line 425) or the
\* second operand (line 427)
Rloss ==
    /\ rlPc[0] = "rloss"
    /\ rlEvals' = [rlEvals EXCEPT ![0] = @ + 1]
    /\ IF rlSize > 1
       THEN rlPc' = [rlPc EXCEPT ![0] = "bcast"] /\ UNCHANGED rlResult
       ELSE /\ rlPc' = [rlPc EXCEPT ![0] = "returned"]
            /\ rlResult' = [rlResult EXCEPT ![0] = <<rlOloss[0] + rlPenalty>>]
    /\ UNCHANGED <<rlSize, rlLocal, rlNcooc, rlPenalty, rlNcoocAll, rlOloss, rlQ,
                   rlCalls, notRlossVars>>

\* line 425 on rank 0: oloss() + self._comm.bcast(rloss(), root=0); the root
\* does not wait for the receivers
RootLoss ==
    /\ rlPc[0] = "bcast"
    /\ rlQ' = [r \in RlRanks |-> IF r = 0 THEN rlQ[r] ELSE Append(rlQ[r], rlPenalty)]
    /\ rlCalls' = [rlCalls EXCEPT ![0] = Append(@, "bcast")]
    /\ rlResult' = [rlResult EXCEPT ![0] = <<rlOloss[0] + rlPenalty>>]
    /\ rlPc' = [rlPc EXCEPT ![0] = "returned"]
    /\ UNCHANGED <<rlSize, rlLocal, rlNcooc, rlPenalty, rlNcoocAll, rlOloss,
                   rlEvals, notRlossVars>>

OtherLossWithoutPenalty(o, b) == o

\* line 421: oloss() + self._comm.bcast(None, root=0)
OtherLoss(o, b) == o + b

\* line 421 on a rank other than 0, once the broadcast has arrived
Recv(r) ==
    /\ rlPc[r] = "recv"
    /\ rlQ[r] /= <<>>
    /\ rlQ' = [rlQ EXCEPT ![r] = Tail(@)]
    /\ rlCalls' = [rlCalls EXCEPT ![r] = Append(@, "bcast")]
    /\ rlResult' = [rlResult EXCEPT ![r] = <<OtherLoss(rlOloss[r], Head(rlQ[r]))>>]
    /\ rlPc' = [rlPc EXCEPT ![r] = "returned"]
    /\ UNCHANGED <<rlSize, rlLocal, rlNcooc, rlPenalty, rlNcoocAll, rlOloss,
                   rlEvals, notRlossVars>>

\* the local losses of the model: multiples of LossUnit, which every global
\* record count of the model divides
LocalLosses == {0, LossUnit, 2 * LossUnit}

RlossIdle ==
    /\ rlSize = 0 /\ rlLocal = <<>> /\ rlNcooc = <<>> /\ rlPenalty = 0 /\ rlPc = <<>>
    /\ rlNcoocAll = <<>> /\ rlOloss = <<>> /\ rlQ = <<>> /\ rlCalls = <<>>
    /\ rlEvals = <<>> /\ rlResult = <<>>

RlossInit ==
    /\ rlSize \in 1..MaxSize
    /\ rlLocal \in [RlRanks -> LocalLosses]
    /\ rlNcooc \in [RlRanks -> 1..2]
    /\ rlPenalty \in {0, 7}
    /\ rlPc = [r \in RlRanks |-> "call"]
    /\ rlNcoocAll = [r \in RlRanks |-> 0]
    /\ rlOloss = [r \in RlRanks |-> 0]
    /\ rlQ = [r \in RlRanks |-> <<>>]
    /\ rlCalls = [r \in RlRanks |-> <<>>]
    /\ rlEvals = [r \in RlRanks |-> 0]
    /\ rlResult = [r \in RlRanks |-> <<>>]

-----------------------------------------------------------------------------
(* GloVe._shuffle_cooc_data and the epoch loop of sgd,                    *)
(* src/solvers.py:216-220, 328, 337-343                                   *)

\* one step of a pseudo-random generator: the next state is a function of
\* the state alone
NextRandom(st) == (5 * st + 3) % RandomStates

\* data with the elements at positions i and j (from 0) exchanged
Swap(data, i, j) ==
    [k \in 1..Len(data) |-> IF k = i + 1 THEN data[j + 1]
                            ELSE IF k = j + 1 THEN data[i + 1] ELSE data[k]]

\* np.random.shuffle(data) from position i down, the generator in state st:
\* data[i] is exchanged with data[j], j drawn from 0..i; the draws depend on
\* the state and the length, not on the elements
RECURSIVE ShuffleFrom(_, _, _)
ShuffleFrom(data, i, st) ==
    IF i < 1 THEN [data |-> data, st |-> st]
    ELSE LET st2 == NextRandom(st)
         IN  ShuffleFrom(Swap(data, i, st2 % (i + 1)), i - 1, st2)

NoReseed(seed, st) == st

\* np.random.seed(seed), line 219: the state the next shuffle starts from
Reseed(seed, st) == seed

\* lines 218-220: for data in [row, col, weights, logcooc]: seed, shuffle
ShuffleCoocData(seed) ==
    LET r == ShuffleFrom(shRow, Len(shRow) - 1, Reseed(seed, shNp))
        c == ShuffleFrom(shCol, Len(shCol) - 1, Reseed(seed, r.st))
        w == ShuffleFrom(shWeights, Len(shWeights) - 1, Reseed(seed, c.st))
        l == ShuffleFrom(shLogcooc, Len(shLogcooc) - 1, Reseed(seed, w.st))
    IN  /\ shRow' = r.data
        /\ shCol' = c.data
        /\ shWeights' = w.data
        /\ shLogcooc' = l.data
        /\ shNp' = l.st

\* lines 337-350, one epoch: random.randint gives the seed, the arrays are
\* reshuffled, and epoch and loss read them
ShuffleAndEpoch ==
    /\ shEp < shEpochs
    /\ shRandom' = NextRandom(shRandom)
    /\ ShuffleCoocData(NextRandom(shRandom))
    /\ shEp' = shEp + 1
    /\ UNCHANGED <<shOrig, shEpochs, notShufVars>>

\* the records of a model: (row, col, weight, logcooc)
ShufTuples == {<<0, 1, 2, 5>>, <<1, 0, 2, 5>>, <<1, 1, 3, 7>>, <<0, 0, 4, 9>>}

Column(tuples, c) == [k \in 1..Len(tuples) |-> tuples[k][c]]

ShufIdle ==
    /\ shRow = <<>> /\ shCol = <<>> /\ shWeights = <<>> /\ shLogcooc = <<>>
    /\ shOrig = <<>> /\ shRandom = 0 /\ shNp = 0 /\ shEpochs = 0 /\ shEp = 0

\* after construction (lines 205-214) and random.seed(seed) (line 328)
ShufInit ==
    /\ shOrig \in SeqsUpTo(ShufTuples, MaxShuf)
    /\ shRow = Column(shOrig, 1)
    /\ shCol = Column(shOrig, 2)
    /\ shWeights = Column(shOrig, 3)
    /\ shLogcooc = Column(shOrig, 4)
    /\ shRandom \in 0..(RandomStates - 1)
    /\ shNp = 0
    /\ shEpochs \in 0..MaxEpochs
    /\ shEp = 0

-----------------------------------------------------------------------------
(* vocab_count, src/solvers.py:25-55 *)

VcRanks == 0..(vcSize - 1)

\* the position of word w among the items, 0 if it has none
ItemOf(items, w) ==
    IF \E k \in 1..Len(items) : items[k][1] = w
    THEN CHOOSE k \in 1..Len(items) : items[k][1] = w
    ELSE 0

\* counter[w], 0 for a missing word
CountOf(items, w) == IF ItemOf(items, w) = 0 THEN 0 ELSE items[ItemOf(items, w)][2]

\* Counter(words): each word counted, a new word after the others
RECURSIVE CountWords(_, _)
CountWords(words, items) ==
    IF words = <<>> THEN items
    ELSE LET w == Head(words)
             k == ItemOf(items, w)
         IN  CountWords(Tail(words),
                        IF k = 0 THEN Append(items, <<w, 1>>)
                        ELSE [items EXCEPT ![k] = <<w, @[2] + 1>>])

CountsEveryLine(i, n, rank) == TRUE

\* i%size == rank, i the index of the line in the file (line 43)
CountsLine(i, n, rank) == i % n = rank

\* the words of the lines from line i on that rank counts, in order
RECURSIVE WordsOf(_, _, _, _)
WordsOf(lines, i, n, rank) ==
    IF i >= Len(lines) THEN <<>>
    ELSE (IF CountsLine(i, n, rank) THEN At(lines, i) ELSE <<>>)
             \o WordsOf(lines, i + 1, n, rank)

\* the sum of two Counters: the items of a with b's counts added, then the
\* items only b has
RECURSIVE OnlyIn(_, _)
OnlyIn(b, a) ==
    IF b = <<>> THEN <<>>
    ELSE (IF ItemOf(a, Head(b)[1]) = 0 THEN <<Head(b)>> ELSE <<>>) \o OnlyIn(Tail(b), a)

CounterPlus(a, b) ==
    [k \in 1..Len(a) |-> <<a[k][1], a[k][2] + CountOf(b, a[k][1])>>] \o OnlyIn(b, a)

\* comm.reduce(counts, root=0): the Counters of the ranks 0..n-1 summed
RECURSIVE ReducedCounts(_, _)
ReducedCounts(cs, n) ==
    IF n = 1 THEN cs[0][1] ELSE CounterPlus(ReducedCounts(cs, n - 1), cs[n - 1][1])

\* lines 42-45: the worker reads the file and counts the words of its lines
CountLines(r) ==
    /\ vcPc[r] = "count"
    /\ vcCounts' = [vcCounts EXCEPT ![r] = <<CountWords(WordsOf(vcCorpus, 0, vcSize, r), <<>>)>>]
    /\ vcLines' = [vcLines EXCEPT ![r] =
                     {i \in 0..(Len(vcCorpus) - 1) : CountsLine(i, vcSize, r)}]
    /\ vcPc' = [vcPc EXCEPT ![r] = IF vcSize > 1 THEN "reduce" ELSE "reduced"]
    /\ UNCHANGED <<vcSize, vcCorpus, vcMin, vcFile, vcWrites, notVocabVars>>

\* lines 46-47: counts = comm.reduce(counts, root=0); None on the other ranks
ReduceCounts ==
    /\ vcSize > 1
    /\ \A r \in VcRanks : vcPc[r] = "reduce"
    /\ vcCounts' = [r \in VcRanks |-> IF r = 0 THEN <<ReducedCounts(vcCounts, vcSize)>> ELSE <<>>]
    /\ vcPc' = [r \in VcRanks |-> "reduced"]
    /\ UNCHANGED <<vcSize, vcCorpus, vcMin, vcLines, vcFile, vcWrites, notVocabVars>>

\* the items with item[1] >= min_count, in order
RECURSIVE Filtered(_, _)
Filtered(items, m) ==
    IF items = <<>> THEN <<>>
    ELSE (IF Head(items)[2] >= m THEN <<Head(items)>> ELSE <<>>) \o Filtered(Tail(items), m)

\* item put into a list sorted by decreasing count, after the items whose
\* count is not smaller
RECURSIVE Inserted(_, _)
Inserted(sorted, item) ==
    IF sorted = <<>> THEN <<item>>
    ELSE IF Head(sorted)[2] >= item[2] THEN <<Head(sorted)>> \o Inserted(Tail(sorted), item)
    ELSE <<item>> \o sorted

\* sorted(items, key=itemgetter(1), reverse=True): stable
RECURSIVE SortedByCount(_, _)
SortedByCount(items, sorted) ==
    IF items = <<>> THEN sorted
    ELSE SortedByCount(Tail(items), Inserted(sorted, Head(items)))

\* lines 49-55: rank 0 filters, sorts and writes; the others return
WriteVocab(r) ==
    /\ vcPc[r] = "reduced"
    /\ IF r = 0
       THEN /\ vcFile' = <<SortedByCount(Filtered(vcCounts[0][1], vcMin), <<>>)>>
            /\ vcWrites' = [vcWrites EXCEPT ![r] = @ + 1]
       ELSE UNCHANGED <<vcFile, vcWrites>>
    /\ vcPc' = [vcPc EXCEPT ![r] = "done"]
    /\ UNCHANGED <<vcSize, vcCorpus, vcMin, vcCounts, vcLines, notVocabVars>>

\* the words and the lines a corpus of the model is made of
VocabWords == {"a", "b", "c"}
VocabLines == {<<>>, <<"a">>, <<"a", "b">>, <<"b", "b">>, <<"c", "a">>}

VocabIdle ==
    /\ vcSize = 0 /\ vcCorpus = <<>> /\ vcMin = 0 /\ vcPc = <<>> /\ vcCounts = <<>>
    /\ vcLines = <<>> /\ vcFile = NotWritten /\ vcWrites = <<>>

VocabInit ==
    /\ vcSize \in 1..MaxSize
    /\ vcCorpus \in SeqsUpTo(VocabLines, MaxLines)
    /\ vcMin \in 1..MaxMinCount
    /\ vcPc = [r \in VcRanks |-> "count"]
    /\ vcCounts = [r \in VcRanks |-> <<>>]
    /\ vcLines = [r \in VcRanks |-> {}]
    /\ vcFile = NotWritten
    /\ vcWrites = [r \in VcRanks |-> 0]

-----------------------------------------------------------------------------
(* GloVe.sgd and GloVe.loss in a group, src/solvers.py:283-294, 315-350 *)

MgRanks == 0..(mgSize - 1)

\* where a rank goes when loss() returns: to line 334 after the initial
\* loss of line 333, to line 347 after the loss of line 346
AfterLoss(r) == IF mgStarted[r] THEN "checkpoint" ELSE "ncooc"

\* lines 327-333: the first message, and self.loss() when verbose and not
\* cumulative
MgBegin(r) ==
    /\ mgPc[r] = "begin"
    /\ mgPc' = [mgPc EXCEPT ![r] = IF mgVerbose /\ ~mgCumulative THEN "loss" ELSE "ncooc"]
    /\ UNCHANGED <<mgSize, mgEpochs, mgVerbose, mgCumulative, mgNcooc, mgEp,
                   mgStarted, mgLeft, mgParams, mgSeen, notMsgdVars>>

\* the ranks other than r that have their pass of r's epoch to start or to
\* finish
Unfinished(r) ==
    {q \in MgRanks \ {r} : mgStarted[q] /\ mgEp[q] = mgEp[r] /\ mgPc[q] \in {"loop", "epoch"}}

\* loss(), lines 285-290: predict reads the parameter arrays for every local
\* record; no collective comes before it
MgLossLocal(r) ==
    /\ mgPc[r] = "loss"
    /\ mgSeen' = [mgSeen EXCEPT ![r] = Unfinished(r)]
    /\ mgPc' = [mgPc EXCEPT ![r] = IF mgSize > 1 THEN "loss allreduce ncooc" ELSE AfterLoss(r)]
    /\ UNCHANGED <<mgSize, mgEpochs, mgVerbose, mgCumulative, mgNcooc, mgEp,
                   mgStarted, mgLeft, mgParams, notMsgdVars>>

\* loss(), line 292: the first allreduce
MgLossAllreduceNcooc ==
    /\ \A r \in MgRanks : mgPc[r] = "loss allreduce ncooc"
    /\ mgPc' = [r \in MgRanks |-> "loss allreduce loss"]
    /\ UNCHANGED <<mgSize, mgEpochs, mgVerbose, mgCumulative, mgNcooc, mgEp,
                   mgStarted, mgLeft, mgParams, mgSeen, notMsgdVars>>

\* loss(), line 293: the second allreduce, and the return
MgLossAllreduceLoss ==
    /\ \A r \in MgRanks : mgPc[r] = "loss allreduce loss"
    /\ mgPc' = [r \in MgRanks |-> AfterLoss(r)]
    /\ UNCHANGED <<mgSize, mgEpochs, mgVerbose, mgCumulative, mgNcooc, mgEp,
                   mgStarted, mgLeft, mgParams, mgSeen, notMsgdVars>>

\* line 334: ncooc = comm.allreduce(self.ncooc)
MgNcooc ==
    /\ \A r \in MgRanks : mgPc[r] = "ncooc"
    /\ mgStarted' = [r \in MgRanks |-> TRUE]
    /\ mgPc' = [r \in MgRanks |-> "loop"]
    /\ UNCHANGED <<mgSize, mgEpochs, mgVerbose, mgCumulative, mgNcooc, mgEp,
                   mgLeft, mgParams, mgSeen, notMsgdVars>>

\* lines 337-342: the next epoch, its message and the reshuffle; or the
\* return after the last one
MgLoop(r) ==
    /\ mgPc[r] = "loop"
    /\ IF mgEp[r] < mgEpochs
       THEN /\ mgPc' = [mgPc EXCEPT ![r] = "epoch"]
            /\ mgLeft' = [mgLeft EXCEPT ![r] = mgNcooc[r]]
       ELSE /\ mgPc' = [mgPc EXCEPT ![r] = "returned"]
            /\ UNCHANGED mgLeft
    /\ UNCHANGED <<mgSize, mgEpochs, mgVerbose, mgCumulative, mgNcooc, mgEp,
                   mgStarted, mgParams, mgSeen, notMsgdVars>>

\* line 343, one record of epoch: the rows of the shared arrays are written
MgEpochRecord(r) ==
    /\ mgPc[r] = "epoch"
    /\ mgLeft[r] > 0
    /\ mgLeft' = [mgLeft EXCEPT ![r] = @ - 1]
    /\ mgParams' = mgParams + 1
    /\ UNCHANGED <<mgSize, mgEpochs, mgVerbose, mgCumulative, mgNcooc, mgPc, mgEp,
                   mgStarted, mgSeen, notMsgdVars>>

\* epoch returns; lines 345-346: comm.allreduce(loss) if cumulative else
\* self.loss(), when verbose
MgEpochEnd(r) ==
    /\ mgPc[r] = "epoch"
    /\ mgLeft[r] = 0
    /\ mgPc' = [mgPc EXCEPT ![r] = IF ~mgVerbose THEN "checkpoint"
                                    ELSE IF mgCumulative THEN "allreduce loss"
                                    ELSE "loss"]
    /\ UNCHANGED <<mgSize, mgEpochs, mgVerbose, mgCumulative, mgNcooc, mgEp,
                   mgStarted, mgLeft, mgParams, mgSeen, notMsgdVars>>

\* line 346: comm.allreduce(loss)
MgAllreduceLoss ==
    /\ \A r \in MgRanks : mgPc[r] = "allreduce loss"
    /\ mgPc' = [r \in MgRanks |-> "checkpoint"]
    /\ UNCHANGED <<mgSize, mgEpochs, mgVerbose, mgCumulative, mgNcooc, mgEp,
                   mgStarted, mgLeft, mgParams, mgSeen, notMsgdVars>>

\* lines 347-350: checkpoint(comm), a barrier of the group, then the report
MgCheckpoint ==
    /\ \A r \in MgRanks : mgPc[r] = "checkpoint"
    /\ mgEp' = [r \in MgRanks |-> mgEp[r] + 1]
    /\ mgPc' = [r \in MgRanks |-> "loop"]
    /\ UNCHANGED <<mgSize, mgEpochs, mgVerbose, mgCumulative, mgNcooc,
                   mgStarted, mgLeft, mgParams, mgSeen, notMsgdVars>>

MsgdIdle ==
    /\ mgSize = 0 /\ mgEpochs = 0 /\ mgVerbose = FALSE /\ mgCumulative = FALSE
    /\ mgNcooc = <<>> /\ mgPc = <<>> /\ mgEp = <<>> /\ mgStarted = <<>>
    /\ mgLeft = <<>> /\ mgParams = 0 /\ mgSeen = <<>>

MsgdInit ==
    /\ mgSize \in 1..MaxSize
    /\ mgEpochs \in 0..MaxEpochs
    /\ mgVerbose \in BOOLEAN
    /\ mgCumulative \in BOOLEAN
    /\ mgNcooc \in [MgRanks -> 1..MaxCooc]
    /\ mgPc = [r \in MgRanks |-> "begin"]
    /\ mgEp = [r \in MgRanks |-> 0]
    /\ mgStarted = [r \in MgRanks |-> FALSE]
    /\ mgLeft = [r \in MgRanks |-> 0]
    /\ mgParams = 0
    /\ mgSeen = [r \in MgRanks |-> {}]

-----------------------------------------------------------------------------
(* induce_embeddings: X of the target cooccurrences, src/solvers.py:543-554 *)

\* the key None of a dict
NoneKey == -1

\* {w: i for i, w in enumerate(vocab)}.get(w): the index of w, or None
IndexIn(vocab, w) ==
    IF \E k \in 1..Len(vocab) : vocab[k] = w
    THEN (CHOOSE k \in 1..Len(vocab) : vocab[k] = w) - 1
    ELSE NoneKey

\* the keys of tgt2src = {tgt2idx.get(w): i for i, w in enumerate(srcvocab)}
Tgt2srcKeys == {IndexIn(tgtvocab, srcvocab[k]) : k \in 1..Len(srcvocab)}

\* tgt2src[key]: the last i written under the key
Tgt2src(key) ==
    LET is == {i \in 0..(Len(srcvocab) - 1) : IndexIn(tgtvocab, At(srcvocab, i)) = key}
    IN  CHOOSE i \in is : \A i2 \in is : i2 <= i

\* lines 548-552 for one record: col[i] = tgt2src[j], or data[i] = zero on
\* KeyError; col[i] stays as it is then
RemapRecord ==
    /\ indPc = "remap"
    /\ indDone < Len(indCol)
    /\ LET j == At(indCol, indDone)
       IN  IF j \in Tgt2srcKeys
           THEN /\ indCol' = [indCol EXCEPT ![indDone + 1] = Tgt2src(j)]
                /\ UNCHANGED indData
           ELSE /\ indData' = [indData EXCEPT ![indDone + 1] = 0]
                /\ UNCHANGED indCol
    /\ indDone' = indDone + 1
    /\ UNCHANGED <<srcvocab, tgtvocab, indRow, indCol0, indPc, indX, notIndVars>>

\* sp.csr_matrix((data, (row, col)), shape=(nrows, ncols)) takes the indices
\* inside the shape and raises ValueError on any other
IndicesInShape(nrows, ncols) ==
    \A k \in 1..Len(indCol) : indRow[k] < nrows /\ indCol[k] < ncols

\* the sum of the data of the records at (r, c)
RECURSIVE SumAt(_, _, _)
SumAt(r, c, k) ==
    IF k = 0 THEN 0
    ELSE (IF indRow[k] = r /\ indCol[k] = c THEN indData[k] ELSE 0) + SumAt(r, c, k - 1)

\* the entries of the matrix after X.eliminate_zeros()
StoredEntries ==
    LET cells == {<<indRow[k], indCol[k]>> : k \in 1..Len(indCol)}
        kept  == {cell \in cells : SumAt(cell[1], cell[2], Len(indCol)) /= 0}
    IN  [cell \in kept |-> SumAt(cell[1], cell[2], Len(indCol))]

\* lines 553-554: X = sp.csr_matrix(..., shape=(Vtgt, Vsrc)); X.eliminate_zeros()
BuildMatrix ==
    /\ indPc = "remap"
    /\ indDone = Len(indCol)
    /\ IF IndicesInShape(Len(tgtvocab), Len(srcvocab))
       THEN indPc' = "built" /\ indX' = <<StoredEntries>>
       ELSE indPc' = "ValueError" /\ UNCHANGED indX
    /\ UNCHANGED <<srcvocab, tgtvocab, indRow, indCol, indData, indCol0, indDone,
                   notIndVars>>

\* the words of the vocabularies of the model
IndWords == {"a", "b", "c"}

\* the vocabularies: duplicate-free and not empty
Vocabularies ==
    {s \in SeqsUpTo(IndWords, MaxVocab) :
        s /= <<>> /\ \A j, k \in 1..Len(s) : j /= k => s[j] /= s[k]}

IndIdle ==
    /\ srcvocab = <<>> /\ tgtvocab = <<>> /\ indRow = <<>> /\ indCol = <<>>
    /\ indData = <<>> /\ indCol0 = <<>> /\ indDone = 0 /\ indPc = "idle"
    /\ indX = <<>>

\* after symcooc(tgtcooc, comm), line 544: records over the target vocabulary
IndInit ==
    /\ srcvocab \in Vocabularies
    /\ tgtvocab \in Vocabularies
    /\ \E n \in 0..MaxTgtRecords :
           /\ indRow \in [1..n -> 0..(Len(tgtvocab) - 1)]
           /\ indCol \in [1..n -> 0..(Len(tgtvocab) - 1)]
           /\ indData \in [1..n -> {2}]
    /\ indCol0 = indCol
    /\ indDone = 0
    /\ indPc = "remap"
    /\ indX = <<>>

-----------------------------------------------------------------------------
(* induce_embeddings in a group, src/solvers.py:526-541, 556-580 *)

PtRanks == 0..(ptSize - 1)

RangeBoundEqualShare(k, n) == k * (n \div ptSize)

\* int(k/size*n), k = rank or rank+1: 0/size*n is 0 and size/size*n is n;
\* between them a product that is a whole number may come out just below
\* it, and int cuts it down
RangeBound(k, n) ==
    IF (k * n) % ptSize = 0 /\ 0 < k /\ k < ptSize /\ ptLow = <<k, n>>
    THEN (k * n) \div ptSize - 1
    ELSE (k * n) \div ptSize

\* start, stop = int(rank/size*n), int((rank+1)/size*n): the indices of
\* [start:stop]
RangeOf(r, n) == {i \in 0..(n - 1) : RangeBound(r, n) <= i /\ i < RangeBound(r + 1, n)}

\* arr[start:stop] written by rank r
WrittenBy(arr, r, n) == [i \in DOMAIN arr |-> IF i \in RangeOf(r, n) THEN arr[i] \cup {r} ELSE arr[i]]

\* a collective every rank of the group calls: complete once all have
AllAt(label) == \A r \in PtRanks : ptPc[r] = label

\* lines 533-534: U[start:stop] /= C[start:stop, None], the range over Vsrc
WriteSourceU(r) ==
    /\ ptPc[r] = "U source"
    /\ ptU' = WrittenBy(ptU, r, ptVsrc)
    /\ ptPc' = [ptPc EXCEPT ![r] = "checkpoint 535"]
    /\ UNCHANGED <<ptSize, ptVsrc, ptVtgt, ptD, ptLow, ptM, ptUt, ptT, ptMSeen,
                   ptRet, ptRetRows, notPartVars>>

\* lines 535-538: checkpoint(comm), then M = sam.create(np.zeros((d, d))),
\* which ends with a checkpoint of its own (line 157)
CreateM ==
    /\ AllAt("checkpoint 535")
    /\ ptPc' = [r \in PtRanks |-> "M"]
    /\ UNCHANGED <<ptSize, ptVsrc, ptVtgt, ptD, ptLow, ptU, ptM, ptUt, ptT, ptMSeen,
                   ptRet, ptRetRows, notPartVars>>

\* lines 539-540: M[:,start:stop] = ..., the range over d
WriteM(r) ==
    /\ ptPc[r] = "M"
    /\ ptM' = WrittenBy(ptM, r, ptD)
    /\ ptPc' = [ptPc EXCEPT ![r] = "checkpoint 541"]
    /\ UNCHANGED <<ptSize, ptVsrc, ptVtgt, ptD, ptLow, ptU, ptUt, ptT, ptMSeen,
                   ptRet, ptRetRows, notPartVars>>

\* lines 541-571: checkpoint(comm); the target cooccurrences and X, local to
\* each rank; the two Reduce calls and the two sam.create calls for C and U
CreateTargetU ==
    /\ AllAt("checkpoint 541")
    /\ ptPc' = [r \in PtRanks |-> "U target"]
    /\ UNCHANGED <<ptSize, ptVsrc, ptVtgt, ptD, ptLow, ptU, ptM, ptUt, ptT, ptMSeen,
                   ptRet, ptRetRows, notPartVars>>

\* lines 572-573: U[start:stop] /= C[start:stop, None], the range over Vtgt
WriteTargetU(r) ==
    /\ ptPc[r] = "U target"
    /\ ptUt' = WrittenBy(ptUt, r, ptVtgt)
    /\ ptPc' = [ptPc EXCEPT ![r] = "create tgtvecs"]
    /\ UNCHANGED <<ptSize, ptVsrc, ptVtgt, ptD, ptLow, ptU, ptM, ptT, ptMSeen,
                   ptRet, ptRetRows, notPartVars>>

\* line 576: tgtvecs = sam.create(np.zeros((Vtgt, d)))
CreateTgtvecs ==
    /\ AllAt("create tgtvecs")
    /\ ptPc' = [r \in PtRanks |-> "tgtvecs"]
    /\ UNCHANGED <<ptSize, ptVsrc, ptVtgt, ptD, ptLow, ptU, ptM, ptUt, ptT, ptMSeen,
                   ptRet, ptRetRows, notPartVars>>

\* line 577: tgtvecs[start:stop] = U[start:stop].dot(M.T): the rank reads
\* its rows of U and all of M
WriteTgtvecs(r) ==
    /\ ptPc[r] = "tgtvecs"
    /\ ptMSeen' = [ptMSeen EXCEPT ![r] = <<ptM>>]
    /\ ptT' = WrittenBy(ptT, r, ptVtgt)
    /\ ptPc' = [ptPc EXCEPT ![r] = "checkpoint 578"]
    /\ UNCHANGED <<ptSize, ptVsrc, ptVtgt, ptD, ptLow, ptU, ptM, ptUt,
                   ptRet, ptRetRows, notPartVars>>

\* line 578: checkpoint(comm)
LastCheckpoint ==
    /\ AllAt("checkpoint 578")
    /\ ptPc' = [r \in PtRanks |-> "return"]
    /\ UNCHANGED <<ptSize, ptVsrc, ptVtgt, ptD, ptLow, ptU, ptM, ptUt, ptT, ptMSeen,
                   ptRet, ptRetRows, notPartVars>>

\* lines 579-580: if not rank: return tgtvecs
ReturnTgtvecs(r) ==
    /\ ptPc[r] = "return"
    /\ ptRet' = [ptRet EXCEPT ![r] = IF r = 0 THEN "array" ELSE "None"]
    /\ ptRetRows' = IF r = 0 THEN <<ptT>> ELSE ptRetRows
    /\ ptPc' = [ptPc EXCEPT ![r] = "returned"]
    /\ UNCHANGED <<ptSize, ptVsrc, ptVtgt, ptD, ptLow, ptU, ptM, ptUt, ptT, ptMSeen,
                   notPartVars>>

PartIdle ==
    /\ ptSize = 0 /\ ptVsrc = 0 /\ ptVtgt = 0 /\ ptD = 0 /\ ptLow = <<0, 0>>
    /\ ptPc = <<>> /\ ptU = <<>> /\ ptM = <<>> /\ ptUt = <<>> /\ ptT = <<>>
    /\ ptMSeen = <<>> /\ ptRet = <<>> /\ ptRetRows = <<>>

\* a group of several workers after line 530: U shared, nothing written yet
PartInit ==
    /\ ptSize \in 2..MaxPartSize
    /\ ptVsrc \in 1..MaxDim
    /\ ptVtgt \in 1..MaxDim
    /\ ptD \in 1..MaxDim
    /\ ptLow \in {<<0, 0>>} \cup ((1..(ptSize - 1)) \X {ptVsrc, ptVtgt, ptD})
    /\ ptPc = [r \in PtRanks |-> "U source"]
    /\ ptU = [i \in 0..(ptVsrc - 1) |-> {}]
    /\ ptM = [i \in 0..(ptD - 1) |-> {}]
    /\ ptUt = [i \in 0..(ptVtgt - 1) |-> {}]
    /\ ptT = [i \in 0..(ptVtgt - 1) |-> {}]
    /\ ptMSeen = [r \in PtRanks |-> <<>>]
    /\ ptRet = [r \in PtRanks |-> ""]
    /\ ptRetRows = <<>>

-----------------------------------------------------------------------------
(* main, src/solvers.py:582-600 *)

\* x in s of two strings: x is a substring of s (the empty string of any)
InString(x, s) == \E k \in 0..(Len(s) - Len(x)) : SubSeq(s, k + 1, k + Len(x)) = x

Thru == <<"t", "h", "r", "u">>

\* args.mode == 'vocab' or args.mode[:4] in 'thru'
RunsVocabCount == mode = <<"v", "o", "c", "a", "b">> \/ InString(PySlice(mode, 0, 4), Thru)

\* args.mode == 'cooc' or args.mode[:4] in 'thru'
RunsCoocCount == mode = <<"c", "o", "o", "c">> \/ InString(PySlice(mode, 0, 4), Thru)

\* GloVe if args.mode[-5:] == 'glove' else SN if args.mode[-2:] == 'sn' else None
Embedding ==
    IF PySliceFrom(mode, -5) = <<"g", "l", "o", "v", "e">> THEN "GloVe"
    ELSE IF PySliceFrom(mode, -2) = <<"s", "n">> THEN "SN"
    ELSE "None"

\* the modes after which main returns without a model: line 592
ModesWithoutModel ==
    {<<"v", "o", "c", "a", "b">>, <<"c", "o", "o", "c">>,
     <<"t", "h", "r", "u", "-", "c", "o", "o", "c">>}

\* lines 584-585
MainVocab ==
    /\ mainPc = "line 584"
    /\ stages' = IF RunsVocabCount THEN Append(stages, "vocab_count") ELSE stages
    /\ mainPc' = "line 587"
    /\ UNCHANGED <<mode, notMainVars>>

\* lines 587-588
MainCooc ==
    /\ mainPc = "line 587"
    /\ stages' = IF RunsCoocCount THEN Append(stages, "cooc_count") ELSE stages
    /\ mainPc' = "line 590"
    /\ UNCHANGED <<mode, notMainVars>>

\* lines 590-594
MainSelect ==
    /\ mainPc = "line 590"
    /\ mainPc' = IF Embedding /= "None" THEN "line 596"
                 ELSE IF mode \notin ModesWithoutModel THEN "NotImplementedError"
                 ELSE "returned"
    /\ UNCHANGED <<mode, stages, notMainVars>>

\* lines 596-598: V from the vocabulary file, and the model constructed
MainConstruct ==
    /\ mainPc = "line 596"
    /\ stages' = Append(stages, Embedding)
    /\ mainPc' = "line 599"
    /\ UNCHANGED <<mode, notMainVars>>

\* line 599: E.sgd(args.niter, args.eta, verbose=args.verbose)
MainSgd ==
    /\ mainPc = "line 599"
    /\ stages' = Append(stages, "sgd")
    /\ mainPc' = "line 600"
    /\ UNCHANGED <<mode, notMainVars>>

\* line 600: E.dump(args.output), and the end of the with block
MainDump ==
    /\ mainPc = "line 600"
    /\ stages' = Append(stages, "dump")
    /\ mainPc' = "returned"
    /\ UNCHANGED <<mode, notMainVars>>

\* the mode strings of the model: the seven modes of the parser's help
\* (line 605) and strings that are none of them
Modes ==
    {<<"v", "o", "c", "a", "b">>, <<"c", "o", "o", "c">>, <<"g", "l", "o", "v", "e">>,
     <<"s", "n">>, <<"t", "h", "r", "u", "-", "c", "o", "o", "c">>,
     <<"t", "h", "r", "u", "-", "g", "l", "o", "v", "e">>,
     <<"t", "h", "r", "u", "-", "s", "n">>,
     <<>>, <<"t">>, <<"h", "r">>, <<"t", "h", "r", "u">>, <<"t", "h", "r", "u", "-">>,
     <<"t", "h", "r", "u", "-", "x">>,
     <<"t", "h", "r", "u", "-", "v", "o", "c", "a", "b">>,
     <<"t", "h", "r", "u", "g", "l", "o", "v", "e">>,
     <<"f", "o", "o">>, <<"x", "g", "l", "o", "v", "e">>, <<"x", "s", "n">>,
     <<"g", "l", "o", "v", "e", "x">>, <<"V", "o", "c", "a", "b">>,
     <<"c", "o", "o", "c", "s">>, <<"t", "r", "a", "i", "n">>, <<"u">>,
     <<"s", "n", "x">>, <<"t", "h", "r", "u", "-", "c", "o", "o", "c", "s">>}

MainIdle == mode = <<>> /\ mainPc = "idle" /\ stages = <<>>

MainInit ==
    /\ mode \in Modes
    /\ mainPc = "line 584"
    /\ stages = <<>>

-----------------------------------------------------------------------------
(* The specifications *)

InitDoc ==
    /\ DocInit /\ CoocIdle /\ SamIdle /\ SymIdle /\ SgdIdle /\ EpochIdle
    /\ RegIdle /\ FmtIdle /\ RlossIdle /\ ShufIdle /\ VocabIdle /\ MsgdIdle
    /\ IndIdle /\ PartIdle /\ MainIdle
NextDoc == CallDoc2cooc
SpecDoc == InitDoc /\ [][NextDoc]_vars

InitCooc ==
    /\ CoocInit /\ DocIdle /\ SamIdle /\ SymIdle /\ SgdIdle /\ EpochIdle
    /\ RegIdle /\ FmtIdle /\ RlossIdle /\ ShufIdle /\ VocabIdle /\ MsgdIdle
    /\ IndIdle /\ PartIdle /\ MainIdle
NextCooc ==
    \/ \E r \in Ranks : ReadChunk(r)
    \/ Allreduce
    \/ Reduce
    \/ \E r \in Ranks : BreakIfNoV(r)
    \/ \E r \in Ranks : WriteCooc(r)
SpecCooc == InitCooc /\ [][NextCooc]_vars

InitSam ==
    /\ SamInit /\ DocIdle /\ CoocIdle /\ SymIdle /\ SgdIdle /\ EpochIdle
    /\ RegIdle /\ FmtIdle /\ RlossIdle /\ ShufIdle /\ VocabIdle /\ MsgdIdle
    /\ IndIdle /\ PartIdle /\ MainIdle
NextSam ==
    \/ \E r \in SamRanks : New(r)
    \/ \E r \in SamRanks : EnterCreate(r)
    \/ LeaderAlloc
    \/ LeaderInit
    \/ LeaderBcast
    \/ \E r \in SamRanks : Attach(r)
    \/ Checkpoint
    \/ \E r \in SamRanks : EnterExit(r)
    \/ \E r \in SamRanks : ExitDelete(r)
    \/ \E r \in SamRanks : LeaveExit(r)
SpecSam == InitSam /\ [][NextSam]_vars

InitSym ==
    /\ SymInit /\ DocIdle /\ CoocIdle /\ SamIdle /\ SgdIdle /\ EpochIdle
    /\ RegIdle /\ FmtIdle /\ RlossIdle /\ ShufIdle /\ VocabIdle /\ MsgdIdle
    /\ IndIdle /\ PartIdle /\ MainIdle
NextSym == \E r \in SymRanks : Symcooc(r)
SpecSym == InitSym /\ [][NextSym]_vars

InitSgd ==
    /\ SgdInit /\ DocIdle /\ CoocIdle /\ SamIdle /\ SymIdle /\ EpochIdle
    /\ RegIdle /\ FmtIdle /\ RlossIdle /\ ShufIdle /\ VocabIdle /\ MsgdIdle
    /\ IndIdle /\ PartIdle /\ MainIdle
NextSgd ==
    \/ SgdBegin
    \/ SgdNcooc
    \/ SgdLoop
    \/ SgdEpoch
    \/ SgdReport
    \/ SgdCheckpoint
SpecSgd == InitSgd /\ [][NextSgd]_vars

InitEpoch ==
    /\ EpochInit /\ DocIdle /\ CoocIdle /\ SamIdle /\ SymIdle /\ SgdIdle
    /\ RegIdle /\ FmtIdle /\ RlossIdle /\ ShufIdle /\ VocabIdle /\ MsgdIdle
    /\ IndIdle /\ PartIdle /\ MainIdle
NextEpoch == EpochRecord
SpecEpoch == InitEpoch /\ [][NextEpoch]_vars

InitReg ==
    /\ RegInit /\ DocIdle /\ CoocIdle /\ SamIdle /\ SymIdle /\ SgdIdle
    /\ EpochIdle /\ FmtIdle /\ RlossIdle /\ ShufIdle /\ VocabIdle /\ MsgdIdle
    /\ IndIdle /\ PartIdle /\ MainIdle
NextReg ==
    \/ GloVeInit
    \/ RegularizedGloVeInit
    \/ RegLoss
    \/ \E top \in 0..(regV - 1) : RegEpoch(top)
SpecReg == InitReg /\ [][NextReg]_vars

InitFmt ==
    /\ FmtInit /\ DocIdle /\ CoocIdle /\ SamIdle /\ SymIdle /\ SgdIdle
    /\ EpochIdle /\ RegIdle /\ RlossIdle /\ ShufIdle /\ VocabIdle /\ MsgdIdle
    /\ IndIdle /\ PartIdle /\ MainIdle
NextFmt ==
    \/ WriteRecord
    \/ CloseFile
    \/ CountRecords
    \/ ReadRecord
    \/ YieldIndices
SpecFmt == InitFmt /\ [][NextFmt]_vars

InitRloss ==
    /\ RlossInit /\ DocIdle /\ CoocIdle /\ SamIdle /\ SymIdle /\ SgdIdle
    /\ EpochIdle /\ RegIdle /\ FmtIdle /\ ShufIdle /\ VocabIdle /\ MsgdIdle
    /\ IndIdle /\ PartIdle /\ MainIdle
NextRloss ==
    \/ \E r \in RlRanks : LocalLoss(r)
    \/ ReturnLocal
    \/ AllreduceNcooc
    \/ AllreduceLoss
    \/ Rloss
    \/ RootLoss
    \/ \E r \in RlRanks : Recv(r)
SpecRloss == InitRloss /\ [][NextRloss]_vars

InitShuf ==
    /\ ShufInit /\ DocIdle /\ CoocIdle /\ SamIdle /\ SymIdle /\ SgdIdle
    /\ EpochIdle /\ RegIdle /\ FmtIdle /\ RlossIdle /\ VocabIdle /\ MsgdIdle
    /\ IndIdle /\ PartIdle /\ MainIdle
NextShuf ==
    ShuffleAndEpoch
SpecShuf == InitShuf /\ [][NextShuf]_vars

InitVocab ==
    /\ VocabInit /\ DocIdle /\ CoocIdle /\ SamIdle /\ SymIdle /\ SgdIdle
    /\ EpochIdle /\ RegIdle /\ FmtIdle /\ RlossIdle /\ ShufIdle /\ MsgdIdle
    /\ IndIdle /\ PartIdle /\ MainIdle
NextVocab ==
    \/ \E r \in VcRanks : CountLines(r)
    \/ ReduceCounts
    \/ \E r \in VcRanks : WriteVocab(r)
SpecVocab == InitVocab /\ [][NextVocab]_vars

InitMsgd ==
    /\ MsgdInit /\ DocIdle /\ CoocIdle /\ SamIdle /\ SymIdle /\ SgdIdle
    /\ EpochIdle /\ RegIdle /\ FmtIdle /\ RlossIdle /\ ShufIdle /\ VocabIdle
    /\ IndIdle /\ PartIdle /\ MainIdle
NextMsgd ==
    \/ \E r \in MgRanks : MgBegin(r)
    \/ \E r \in MgRanks : MgLossLocal(r)
    \/ MgLossAllreduceNcooc
    \/ MgLossAllreduceLoss
    \/ MgNcooc
    \/ \E r \in MgRanks : MgLoop(r)
    \/ \E r \in MgRanks : MgEpochRecord(r)
    \/ \E r \in MgRanks : MgEpochEnd(r)
    \/ MgAllreduceLoss
    \/ MgCheckpoint
SpecMsgd == InitMsgd /\ [][NextMsgd]_vars

InitInd ==
    /\ IndInit /\ DocIdle /\ CoocIdle /\ SamIdle /\ SymIdle /\ SgdIdle
    /\ EpochIdle /\ RegIdle /\ FmtIdle /\ RlossIdle /\ ShufIdle /\ VocabIdle
    /\ MsgdIdle /\ PartIdle /\ MainIdle
NextInd ==
    \/ RemapRecord
    \/ BuildMatrix
SpecInd == InitInd /\ [][NextInd]_vars

InitPart ==
    /\ PartInit /\ DocIdle /\ CoocIdle /\ SamIdle /\ SymIdle /\ SgdIdle
    /\ EpochIdle /\ RegIdle /\ FmtIdle /\ RlossIdle /\ ShufIdle /\ VocabIdle
    /\ MsgdIdle /\ IndIdle /\ MainIdle
NextPart ==
    \/ \E r \in PtRanks : WriteSourceU(r)
    \/ CreateM
    \/ \E r \in PtRanks : WriteM(r)
    \/ CreateTargetU
    \/ \E r \in PtRanks : WriteTargetU(r)
    \/ CreateTgtvecs
    \/ \E r \in PtRanks : WriteTgtvecs(r)
    \/ LastCheckpoint
    \/ \E r \in PtRanks : ReturnTgtvecs(r)
SpecPart == InitPart /\ [][NextPart]_vars

InitMain ==
    /\ MainInit /\ DocIdle /\ CoocIdle /\ SamIdle /\ SymIdle /\ SgdIdle
    /\ EpochIdle /\ RegIdle /\ FmtIdle /\ RlossIdle /\ ShufIdle /\ VocabIdle
    /\ MsgdIdle /\ IndIdle /\ PartIdle
NextMain ==
    \/ MainVocab
    \/ MainCooc
    \/ MainSelect
    \/ MainConstruct
    \/ MainSgd
    \/ MainDump
SpecMain == InitMain /\ [][NextMain]_vars

-----------------------------------------------------------------------------
(* doc2cooc: claim C6 *)

Occurrences(seq, t) == Cardinality({k \in 1..Len(seq) : seq[k] = t})

Range(seq) == {seq[k] : k \in 1..Len(seq)}

\* the pairs of positions p < i at most W apart whose words are both in the
\* vocabulary
WindowPairs(idx, W) ==
    {pp \in (0..(Len(idx) - 1)) \X (0..(Len(idx) - 1)) :
        /\ pp[1] < pp[2]
        /\ pp[2] - pp[1] <= W
        /\ At(idx, pp[1]) /= V
        /\ At(idx, pp[2]) /= V}

\* (min(a, b), max(a, b), 1/(i - p)) for the positions pp = (p, i)
TripleOf(idx, pp) ==
    <<Min(At(idx, pp[1]), At(idx, pp[2])), Max(At(idx, pp[1]), At(idx, pp[2])),
      One \div (pp[2] - pp[1])>>

\* C6: doc2cooc emits exactly one triple (min(a,b), max(a,b), 1/(i-p)) for
\* each pair of positions p < i with i-p <= W whose words are both in the
\* vocabulary, and nothing else; pairs of equal words are kept.
C6_Doc2coocEmitsWindowPairs ==
    docPc = "done" =>
        LET pairs == WindowPairs(indices, window_size)
            expected == {TripleOf(indices, pp) : pp \in pairs}
        IN  /\ Range(docOut) = expected
            /\ \A t \in expected :
                   Occurrences(docOut, t)
                       = Cardinality({pp \in pairs : TripleOf(indices, pp) = t})

\* a document longer than its window, with an out-of-vocabulary word, whose
\* output holds a diagonal triple and a triple at distance 2
C6_Witness ==
    /\ docPc = "done"
    /\ Len(indices) > window_size + 1
    /\ V \in Range(indices)
    /\ \E t \in Range(docOut) : t[1] = t[2]
    /\ \E t \in Range(docOut) : t[1] < t[2] /\ t[3] = One \div 2

-----------------------------------------------------------------------------
(* cooc_count: claims C1, C2, C7 *)

\* the triples of every line of the corpus
RECURSIVE CorpusTriples(_)
CorpusTriples(lines) ==
    IF lines = <<>> THEN <<>>
    ELSE doc2cooc(Head(lines), recip_dist(coocWindow), coocWindow, V)
             \o CorpusTriples(Tail(lines))

\* C1: the chunk loop ends only when the corpus is exhausted: the tally
\* written holds the pairs of every line of the corpus, also of the lines
\* after a chunk that produced no pair.
C1_TallyCoversWholeCorpus ==
    coocfile /= NotWritten =>
        coocfile[1] = AddTriples(EmptyCounter, CorpusTriples(corpus))

HasLeft(r) == pc[r] \in {"left", "done"}

\* C2: all workers run the same number of chunk iterations and leave the
\* loop in the same iteration; no worker waits in allreduce or reduce for a
\* worker that has left the loop.
C2_WorkersLeaveLoopTogether ==
    \A r1, r2 \in Ranks :
        HasLeft(r1) =>
            /\ pc[r2] \notin {"allreduce", "reduce"}
            /\ HasLeft(r2) => iter[r1] = iter[r2]

\* the chunk loop of a group of one (lines 100-112 with size = 1), from a
\* handle that has consumed p lines and a Counter cnt
RECURSIVE SingleWorkerLoop(_, _)
SingleWorkerLoop(p, cnt) ==
    LET triples == ChunkTriples(ChunkLines(p), 0, 1, 0)
    IN  IF LastV(triples) = 0 THEN cnt
        ELSE SingleWorkerLoop(Min(p + chunk, Len(corpus)), AddTriples(cnt, triples))

\* the operator above is what the workers' steps compute in a group of one
SingleWorkerLoopAgrees ==
    (size = 1 /\ coocfile /= NotWritten) => coocfile[1] = SingleWorkerLoop(0, EmptyCounter)

\* C7: the tally rank 0 writes in a group of N > 1 workers is the tally a
\* group of one writes for the same corpus, vocabulary, window and chunk size.
C7_GroupTallyEqualsSingleTally ==
    (size > 1 /\ coocfile /= NotWritten) => coocfile[1] = SingleWorkerLoop(0, EmptyCounter)

-----------------------------------------------------------------------------
(* SharedArrayManager: claims C3, C8 *)

\* C3: over any sequence of managers constructed and torn down in one
\* process, every shared handle is released exactly once, by the teardown of
\* the instance that created it: no teardown releases a handle an earlier
\* teardown released, and a repeated teardown releases nothing again.
C3_HandleReleasedOnceByItsCreator ==
    \A k \in 1..Len(deleted) :
        /\ deleted[k].inst = creator[deleted[k].name]
        /\ \A j \in 1..Len(deleted) : j /= k => deleted[j].name /= deleted[k].name

\* C8: in a group of several workers, for every create call: rank 0 has
\* allocated and initialised the array before it broadcasts the name; every
\* other rank attaches exactly the names broadcast, in order; and no worker
\* has returned from a create call that some worker has not yet attached.
C8_CreateProtocol ==
    samSize > 1 =>
        /\ \A r \in SamRanks : \A name \in Range(bcastQ[r]) \cup Range(handles[r]) :
               name \in initialised
        /\ \A r \in SamRanks : handles[r] = SubSeq(handles[0], 1, Len(handles[r]))
        /\ \A r1, r2 \in SamRanks : returned[r1] <= Len(handles[r2])

\* two create calls have returned on every rank of a group of several
\* workers, and every rank holds the two names rank 0 created
C8_Witness ==
    /\ samSize > 1
    /\ \A r \in SamRanks : returned[r] = 2 /\ handles[r] = handles[0]
    /\ Len(handles[0]) = 2 /\ handles[0][1] /= handles[0][2]

-----------------------------------------------------------------------------
(* symcooc: claims C9, C10 *)

SymAllDone == \A r \in SymRanks : symPc[r] = "done"

\* the records (1-based positions in the file) rank r read
RecordsRead(r) == (symRange[r].offset + 1)..(symRange[r].offset + symRange[r].ncooc)

\* the occurrences of triple t in the outputs of ranks 0..n-1 together
RECURSIVE OccurrencesInOutputs(_, _)
OccurrencesInOutputs(t, n) ==
    IF n = 0 THEN 0
    ELSE Occurrences(symOut[n - 1], t) + OccurrencesInOutputs(t, n - 1)

SwapOf(t) == <<t[2], t[1], t[3]>>

\* C9: for every upper-triangular file and every group size, the outputs of
\* all workers together are one multiset: each stored record once, one
\* swapped copy of each record with row < col, no copy of a record with
\* row = col; the multiset is a function of the file alone.
C9_SymmetrizedMultiset ==
    SymAllDone =>
        \A t \in Range(records) \cup {SwapOf(rec) : rec \in Range(records)}
                 \cup UNION {Range(symOut[r]) : r \in SymRanks} :
            OccurrencesInOutputs(t, symSize)
                = Occurrences(records, t)
                    + (IF t[1] > t[2] THEN Occurrences(records, SwapOf(t)) ELSE 0)

\* several workers have symmetrized a file that holds a diagonal record, an
\* off-diagonal record and a repeated record, and one returned a swapped copy
C9_Witness ==
    /\ SymAllDone /\ symSize >= 2
    /\ \E a, b \in 1..Len(records) : a /= b /\ records[a] = records[b]
    /\ \E a \in 1..Len(records) : records[a][1] = records[a][2]
    /\ \E a \in 1..Len(records) : records[a][1] < records[a][2]
    /\ \E r \in SymRanks : \E t \in Range(symOut[r]) : t[1] > t[2]

\* C10: for a file of whole records and every group size, the ranges of
\* records the workers read are contiguous and pairwise disjoint, their
\* union is every record of the file, and two workers' record counts differ
\* by at most one.
C10_RangesPartitionTheFile ==
    SymAllDone =>
        /\ symRange[0].offset = 0
        /\ \A r \in SymRanks : symRange[r].ncooc >= 0
        /\ \A r \in SymRanks : r + 1 \in SymRanks =>
               symRange[r + 1].offset = symRange[r].offset + symRange[r].ncooc
        /\ \A r1, r2 \in SymRanks : r1 /= r2 => RecordsRead(r1) \cap RecordsRead(r2) = {}
        /\ UNION {RecordsRead(r) : r \in SymRanks} = 1..Len(records)
        /\ \A r1, r2 \in SymRanks : symRange[r1].ncooc - symRange[r2].ncooc <= 1

\* a file whose length is no multiple of the group size has been read by
\* every worker of a group of several, two of them reading unequal counts
C10_Witness ==
    /\ SymAllDone /\ symSize >= 2
    /\ Len(records) % symSize /= 0
    /\ \E r1, r2 \in SymRanks : symRange[r1].ncooc = symRange[r2].ncooc + 1

-----------------------------------------------------------------------------
(* GloVe.sgd: claim C4 *)

\* C4: with a null Collective handle (one process, no communicator) sgd
\* runs every requested epoch and returns without invoking any operation on
\* the handle, for every epoch count and both settings of verbose and
\* cumulative: it never fails, and once it has returned it has run them all.
C4_SgdRunsWithoutCommunicator ==
    sgdComm = NoComm =>
        /\ sgdPc /= "raised"
        /\ commCalls = 0
        /\ sgdPc = "returned" => ep = epochs

-----------------------------------------------------------------------------
(* GloVe.epoch: claim C5 *)

\* C5: after a record (i, j) with coef = 2*eta*weight*error is processed,
\* the stored arrays satisfy: b_w[i] and b_c[j] have decreased by coef, C[j]
\* has decreased by coef*W[i] and W[i] by coef times the C[j] of before.
C5_RecordUpdatesStoredArrays ==
    last /= <<>> =>
        LET l == last[1]
        IN  /\ cv[l.j] = Minus(l.cv[l.j], Scale(l.coef, l.wv[l.i]))
            /\ wv[l.i] = Minus(l.wv[l.i], Scale(l.coef, l.cv[l.j]))
            /\ wb[l.i] = l.wb[l.i] - l.coef
            /\ cb[l.j] = l.cb[l.j] - l.coef

\* the part of C5 about the vectors, which the code does satisfy
VectorsUpdatedInPlace ==
    last /= <<>> =>
        LET l == last[1]
        IN  /\ cv[l.j] = Minus(l.cv[l.j], Scale(l.coef, l.wv[l.i]))
            /\ wv[l.i] = Minus(l.wv[l.i], Scale(l.coef, l.cv[l.j]))

-----------------------------------------------------------------------------
(* RegularizedGloVe.__init__: claim C11 *)

\* C11: a regularized model whose reference embedding has a number of rows
\* other than the model's vocabulary size is never constructed: construction
\* fails, and no epoch runs and no loss is computed on the instance.
C11_MismatchFailsAtConstruction ==
    (regPc /= "idle" /\ srcRows /= regV) =>
        /\ regPc \in {"new", "glove", "assertion failed"}
        /\ regEpochs = 0
        /\ regLosses = 0

\* construction is over and the counts array has the reference's length
ConstructedWithReferenceRows ==
    regPc \in {"constructed", "raised in loss", "raised in epoch"} => wccLen = srcRows

-----------------------------------------------------------------------------
(* The record format: claim C12 *)

\* the triples (row, col, weight) a reader makes of what splitcooc yields
TriplesRead == [k \in 1..Len(fmtVal) |-> <<fmtRow[k], fmtCol[k], fmtVal[k]>>]

\* C12: every sequence of records whose row and col are 32-bit unsigned
\* integers can be written, and reading the file back yields the same
\* sequence of (row, col, weight) triples in write order, the record count
\* being the file length divided by 12.
C12_RoundTripOfUnsignedRecords ==
    /\ fmtPc \notin {"struct.error", "OverflowError"}
    /\ fmtPc = "done" =>
           /\ TriplesRead = fmtRecords
           /\ fmtNcooc * NBYTES = Len(fmtFile)
           /\ fmtNcooc = Len(fmtRecords)

\* the round trip of the sequences that struct.pack accepts
RoundTripOfWritten ==
    fmtPc = "done" => TriplesRead = fmtRecords /\ fmtNcooc = Len(fmtRecords)

-----------------------------------------------------------------------------
(* loss() of a regularized model: claim C13 *)

\* the collectives of one loss() call of a regularized model in a group
LossCollectives == <<"allreduce", "allreduce", "bcast">>

\* the total loss: the sum of the workers' loss/ncooc over the global record
\* count, plus the penalty
TotalLoss ==
    SumOver([q \in RlRanks |-> LossPerCooc(rlLocal[q], SumOver(rlNcooc, rlSize))], rlSize)
        + rlPenalty

\* C13: in a group of several workers a loss() call of a regularized model
\* made by all workers returns the same total on every worker: only rank 0
\* evaluates the penalty, every rank calls allreduce, allreduce, bcast in
\* that order, and while a rank has not returned some rank can go on.
C13_RegularizedLossAgrees ==
    rlSize > 1 =>
        /\ \A r \in RlRanks :
               /\ rlCalls[r] = SubSeq(LossCollectives, 1, Len(rlCalls[r]))
               /\ r /= 0 => rlEvals[r] = 0
               /\ rlEvals[r] <= 1
               /\ rlPc[r] = "returned" =>
                      /\ rlCalls[r] = LossCollectives
                      /\ rlResult[r] = <<TotalLoss>>
        /\ (\E r \in RlRanks : rlPc[r] /= "returned") => ENABLED NextRloss

\* every worker of a group of several has returned from loss(), with a
\* penalty that is not zero and unequal local losses
C13_Witness ==
    /\ rlSize > 1
    /\ \A r \in RlRanks : rlPc[r] = "returned" /\ rlResult[r] = rlResult[0]
    /\ rlPenalty /= 0
    /\ \E r \in RlRanks : rlLocal[r] /= rlLocal[0]
    /\ rlEvals[0] = 1

-----------------------------------------------------------------------------
(* GloVe._shuffle_cooc_data: claim C14 *)

\* the tuples the four arrays hold now
ShufNow ==
    [k \in 1..Len(shRow) |-> <<shRow[k], shCol[k], shWeights[k], shLogcooc[k]>>]

\* C14: after any number of epochs of sgd the four arrays have been
\* permuted alike: every (row[k], col[k], weight[k], logWeight[k]) is a
\* tuple present at construction, and each tuple occurs as often as then.
C14_ShuffleKeepsTuples ==
    /\ Len(shCol) = Len(shRow) /\ Len(shWeights) = Len(shRow)
    /\ Len(shLogcooc) = Len(shRow)
    /\ \A k \in 1..Len(shRow) : ShufNow[k] \in Range(shOrig)
    /\ \A t \in Range(shOrig) : Occurrences(ShufNow, t) = Occurrences(shOrig, t)

\* two epochs or more have reshuffled three different tuples or more into
\* an order other than that of construction
C14_Witness ==
    /\ shEp >= 2
    /\ Cardinality(Range(shOrig)) >= 3
    /\ ShufNow /= shOrig

-----------------------------------------------------------------------------
(* vocab_count: claim C15 *)

\* the occurrences of word w in the whole corpus
RECURSIVE CorpusCount(_, _)
CorpusCount(lines, w) ==
    IF lines = <<>> THEN 0 ELSE Occurrences(Head(lines), w) + CorpusCount(Tail(lines), w)

\* C15: for every corpus, threshold and group size: only rank 0 writes the
\* vocabulary; what it writes lists exactly the words whose count over the
\* whole corpus is at least the threshold, each once and with that count,
\* in non-increasing order of count; and every line is counted by exactly
\* one worker.
C15_VocabOfWholeCorpus ==
    /\ \A r \in VcRanks : r /= 0 => vcWrites[r] = 0
    /\ vcFile /= NotWritten =>
           LET out == vcFile[1]
           IN  /\ vcWrites[0] = 1
               /\ {out[k][1] : k \in 1..Len(out)}
                      = {w \in VocabWords : CorpusCount(vcCorpus, w) >= vcMin}
               /\ \A k \in 1..Len(out) : out[k][2] = CorpusCount(vcCorpus, out[k][1])
               /\ \A j, k \in 1..Len(out) : j < k =>
                      out[j][1] /= out[k][1] /\ out[j][2] >= out[k][2]
               /\ \A i \in 0..(Len(vcCorpus) - 1) :
                      Cardinality({r \in VcRanks : i \in vcLines[r]}) = 1

\* a group of several workers has counted a corpus in which a word occurs on
\* lines of two workers; the vocabulary written drops a word below the
\* threshold and keeps two words of different counts
C15_Witness ==
    /\ vcSize > 1 /\ vcFile /= NotWritten
    /\ \A r \in VcRanks : vcPc[r] = "done"
    /\ \E w \in VocabWords : 0 < CorpusCount(vcCorpus, w) /\ CorpusCount(vcCorpus, w) < vcMin
    /\ Len(vcFile[1]) >= 2 /\ vcFile[1][1][2] > vcFile[1][2][2]
    /\ \E i, j \in 0..(Len(vcCorpus) - 1) :
           /\ i % vcSize /= j % vcSize
           /\ Range(At(vcCorpus, i)) \cap Range(At(vcCorpus, j)) /= {}

-----------------------------------------------------------------------------
(* GloVe.sgd in a group: claim C16 *)

\* C16: in a group of several workers with verbose set and cumulative not
\* set, the loss of epoch e is evaluated only after every worker has
\* finished its pass of epoch e: when a worker reads the parameters in
\* loss(), no other worker has records of that epoch left to process.
C16_LossAfterEveryPass ==
    (mgSize > 1 /\ mgVerbose /\ ~mgCumulative) => \A r \in MgRanks : mgSeen[r] = {}

\* the collectives of loss() do order the workers: when loss() returns on a
\* rank, every rank has finished its pass of the epoch
LossReturnsAfterEveryPass ==
    (mgSize > 1 /\ mgVerbose /\ ~mgCumulative) =>
        \A r \in MgRanks : (mgStarted[r] /\ mgPc[r] = "checkpoint") => Unfinished(r) = {}

-----------------------------------------------------------------------------
(* induce_embeddings, step 4: claim C17 *)

\* the word of column j of the target cooccurrences
ColumnWord(k) == At(tgtvocab, indCol0[k])

\* the value X should hold at (r, c): the records of row r whose column word
\* is word c of the source vocabulary
RECURSIVE ExpectedAt(_, _, _)
ExpectedAt(r, c, k) ==
    IF k = 0 THEN 0
    ELSE (IF indRow[k] = r /\ ColumnWord(k) = At(srcvocab, c) THEN 2 ELSE 0)
             + ExpectedAt(r, c, k - 1)

\* C17: for every source vocabulary, target vocabulary and target file,
\* once the loop over the columns is over: a record whose column word is in
\* the source vocabulary has that word's source index as its column, every
\* column handed to the construction of the V_tgt x V_src matrix is below
\* V_src, the construction succeeds, and X holds the records with a source
\* counterpart and no other.
C17_ColumnsRemappedIntoSource ==
    (indPc /= "idle" /\ indDone = Len(indCol)) =>
        /\ \A k \in 1..Len(indCol) :
               IndexIn(srcvocab, ColumnWord(k)) /= NoneKey =>
                   indCol[k] = IndexIn(srcvocab, ColumnWord(k))
        /\ \A k \in 1..Len(indCol) : indCol[k] < Len(srcvocab)
        /\ indPc /= "ValueError"
        /\ indPc = "built" =>
               \A r \in 0..(Len(tgtvocab) - 1), c \in 0..(Len(srcvocab) - 1) :
                   IF ExpectedAt(r, c, Len(indCol)) = 0
                   THEN <<r, c>> \notin DOMAIN indX[1]
                   ELSE /\ <<r, c>> \in DOMAIN indX[1]
                        /\ indX[1][<<r, c>>] = ExpectedAt(r, c, Len(indCol))

\* what the loop does for the target vocabularies no larger than the
\* source's rows can hold: the matrix is built and holds the records with a
\* source counterpart
BuiltMatrixHoldsSourceColumns ==
    indPc = "built" =>
        \A r \in 0..(Len(tgtvocab) - 1), c \in 0..(Len(srcvocab) - 1) :
            IF ExpectedAt(r, c, Len(indCol)) = 0
            THEN <<r, c>> \notin DOMAIN indX[1]
            ELSE /\ <<r, c>> \in DOMAIN indX[1]
                 /\ indX[1][<<r, c>>] = ExpectedAt(r, c, Len(indCol))

-----------------------------------------------------------------------------
(* induce_embeddings in a group: claim C18 *)

\* every index of the array has been written, each by one rank
WrittenOnce(arr) == \A i \in DOMAIN arr : Cardinality(arr[i]) = 1

\* no index of the array has been written by two ranks
WrittenAtMostOnce(arr) == \A i \in DOMAIN arr : Cardinality(arr[i]) <= 1

\* C18: in a group of several workers, for n = Vsrc, Vtgt and d the ranges
\* [int(rank/size*n), int((rank+1)/size*n)) of the ranks are pairwise
\* disjoint and cover [0, n); so no row of U or tgtvecs and no column of M is
\* written by two workers; M is wholly written when a worker reads it, and
\* tgtvecs is wholly written when rank 0, and only rank 0, returns it.
C18_RangesPartitionAndBarriersOrder ==
    ptSize > 1 =>
        /\ \A n \in {ptVsrc, ptVtgt, ptD} :
               /\ \A r1, r2 \in PtRanks : r1 /= r2 => RangeOf(r1, n) \cap RangeOf(r2, n) = {}
               /\ UNION {RangeOf(r, n) : r \in PtRanks} = 0..(n - 1)
        /\ WrittenAtMostOnce(ptU) /\ WrittenAtMostOnce(ptM)
        /\ WrittenAtMostOnce(ptUt) /\ WrittenAtMostOnce(ptT)
        /\ \A r \in PtRanks :
               /\ ptMSeen[r] /= <<>> => WrittenOnce(ptMSeen[r][1])
               /\ ptPc[r] \in {"M", "checkpoint 541"} => WrittenOnce(ptU)
               /\ ptRet[r] = "array" => r = 0
               /\ ptPc[r] = "returned" => ptRet[r] = (IF r = 0 THEN "array" ELSE "None")
        /\ ptRetRows /= <<>> => WrittenOnce(ptRetRows[1]) /\ WrittenOnce(ptUt)

\* every worker of a group of three or more has returned; the ranges of
\* some n are unequal and one boundary came out below its whole value
C18_Witness ==
    /\ ptSize >= 3
    /\ \A r \in PtRanks : ptPc[r] = "returned"
    /\ ptRetRows /= <<>>
    /\ ptVtgt % ptSize /= 0
    /\ ptLow /= <<0, 0>>
    /\ \E r \in PtRanks : RangeBound(r, ptLow[2]) /= (r * ptLow[2]) \div ptSize

-----------------------------------------------------------------------------
(* main: claim C19 *)

\* vocab, cooc, glove, sn, thru-cooc, thru-glove, thru-sn
KnownModes ==
    {<<"v", "o", "c", "a", "b">>, <<"c", "o", "o", "c">>, <<"g", "l", "o", "v", "e">>,
     <<"s", "n">>, <<"t", "h", "r", "u", "-", "c", "o", "o", "c">>,
     <<"t", "h", "r", "u", "-", "g", "l", "o", "v", "e">>,
     <<"t", "h", "r", "u", "-", "s", "n">>}

\* C19: for a mode string that is none of vocab, cooc, glove, sn, thru-cooc,
\* thru-glove, thru-sn, main runs no vocabulary count, no cooccurrence count
\* and no training, and does not return normally: it can only fail.
C19_UnknownModeRunsNothing ==
    (mainPc /= "idle" /\ mode \notin KnownModes) =>
        /\ stages = <<>>
        /\ mainPc \in {"line 584", "line 587", "line 590", "NotImplementedError"}

\* what main does for the seven modes: the stages of the mode, in order
KnownModesRunTheirStages ==
    (mode \in KnownModes /\ mainPc = "returned") =>
        stages = (IF InString(Thru, mode) \/ mode = <<"v", "o", "c", "a", "b">>
                  THEN <<"vocab_count">> ELSE <<>>)
                 \o (IF InString(Thru, mode) \/ mode = <<"c", "o", "o", "c">>
                     THEN <<"cooc_count">> ELSE <<>>)
                 \o (IF Embedding = "None" THEN <<>> ELSE <<Embedding, "sgd", "dump">>)

=============================================================================
